---- MODULE Spec2Model ----
(***************************************************************************)
(* PetForge batch workshop: the task orchestration and consistency engine  *)
(* (per-unit lock, segment pipeline, ordered write propagation, cascade    *)
(* redo with archival) and the batch page's pure helpers.                  *)
(*                                                                         *)
(* The backend services (paretoai/services/*.py, routes/batch.py) are not  *)
(* part of the source tree; what the documents under src/docs quote of     *)
(* them is modelled from those quotations, the rest from the written       *)
(* specification.  The front end (video-studio/src) is modelled from its   *)
(* code.                                                                   *)
(***************************************************************************)
EXTENDS Integers, Sequences, FiniteSets, TLC

(* ------------------------------ bounds -------------------------------- *)

\* segments per unit (the templates use 7)
TotalSegments == 3
\* concurrent workers issuing operations
NumOps == 2
\* the clock stops here
MaxTime == 2
\* requests the page issues in one run
MaxRequests == 2
\* longest BatchTask.segments list fed to the pure helpers
MaxTaskSegs == 3
\* longest segment list of a task in the task lists fed to the list helpers
MaxBatchSegs == 2
\* requests of the batch page that may be pending at once
MaxInFlight == 3
\* largest concurrency bound of a batch stage call
MaxConcurrency == 2

\* lock TTL in clock ticks (10 minutes, one tick = 5 minutes)
LockTTL == 2

Units == {"u1"}
Segs == 0 .. (TotalSegments - 1)
Ops == 1 .. NumOps
NULL == -1

(* --------------------------- status values ---------------------------- *)

GeneratingNames ==
  << "generating_segment_0", "generating_segment_1", "generating_segment_2",
     "generating_segment_3", "generating_segment_4", "generating_segment_5",
     "generating_segment_6" >>

generating_segment(k) == GeneratingNames[k + 1]

\* task.status.startsWith('generating_segment_')
startsWithGeneratingSegment(s) ==
  \E i \in 1 .. Len(GeneratingNames) : s = GeneratingNames[i]

BatchTaskStatus ==
  { "pending", "storyboard_generating", "storyboard_ready",
    "all_segments_ready", "merging", "completed", "failed", "image_failed" }
    \cup { GeneratingNames[i] : i \in 1 .. Len(GeneratingNames) }

SegmentStatus == { "pending", "generating", "completed", "failed" }

PendingResult == [status |-> "pending", video_url |-> 0, last_frame |-> 0]

VARIABLES
  now,              \* clock
  locks,            \* ProjectLockService: the lock table, a set of lock records
  round,            \* per unit: the try_lock calls answered since the lock was last free
  status,           \* batch_tasks.status
  error_message,    \* batch_tasks.error_message
  segment_urls,     \* batch_tasks.segment_urls: index -> SegmentResult
  storyboard_json,  \* batch_tasks.storyboard_json: index -> segment script
  opening_image,    \* the unit has its opening image
  segment_history,  \* batch_tasks.segment_history: archive entries
  local_file,       \* local cache projection of the unit
  feishu,           \* remote mirror projection of the unit
  nextArtifact,     \* id of the next request; names the artifact generated for it
  pc,               \* per worker: position in its operation
  req,              \* per worker: the request it serves
  before,           \* per worker: the unit as it was when the operation started
  wlog,             \* per worker: storage writes of the operation, in order
  flt,              \* per worker: the stores whose write failed in the operation
  res,              \* per worker: what the operation returned
  task,             \* input of the pure helpers
  picked,           \* their output: << >> before the call, << value >> after
  tasks,            \* BatchPage state.tasks: the task list of the page
  selectedRecordIds,\* BatchPage state.selectedRecordIds
  out,              \* what a list helper or page handler produced from them
  page,             \* BatchPage: status, connected, and the requests not yet answered
  modal             \* the prompt edit modals: batch and single-segment

vars ==
  << now, locks, round, status, error_message, segment_urls, storyboard_json,
     opening_image, segment_history, local_file, feishu, nextArtifact,
     pc, req, before, wlog, flt, res, task, picked,
     tasks, selectedRecordIds, out, page, modal >>

storeVars ==
  << status, error_message, segment_urls, storyboard_json, segment_history >>
replicaVars == << local_file, feishu >>
batchVars == << tasks, selectedRecordIds, out >>
helperVars == << task, picked, batchVars, page, modal >>

(* ------------------- pure helpers of lib/batchUtils.ts ------------------- *)

\* seg.status || 'pending'   ("" stands for a missing status)
statusOrPending(seg) == IF seg.status = "" THEN "pending" ELSE seg.status

\* a loop that looks for the first segment still 'pending' instead of the
\* first one that is not 'completed'
RECURSIVE scanFirstPending(_, _, _)
scanFirstPending(t, segments, i) ==
  IF i >= Len(segments) THEN NULL
  ELSE IF statusOrPending(segments[i + 1]) = "pending"
       THEN IF i = 0
            THEN (IF t.openingImageUrl THEN 0 ELSE NULL)
            ELSE (IF statusOrPending(segments[i]) = "completed" THEN i ELSE NULL)
       ELSE scanFirstPending(t, segments, i + 1)

\* the for loop of getNextSegmentIndex, from 0-based index i on
RECURSIVE scanSegments(_, _, _)
scanSegments(t, segments, i) ==
  IF i >= Len(segments) THEN NULL
  ELSE IF statusOrPending(segments[i + 1]) # "completed"
       THEN IF i = 0
            THEN (IF t.openingImageUrl THEN 0 ELSE NULL)
            ELSE (IF statusOrPending(segments[i]) = "completed" THEN i ELSE NULL)
       ELSE scanSegments(t, segments, i + 1)

\* A storyboardJson value is [empty |-> the string is missing or "",
\* storyboards |-> the segment list JSON.parse finds in it (<< >> when the text
\* does not parse or holds no list)].
parseStoryboardSegments(storyboardJson) ==
  IF storyboardJson.empty THEN << >> ELSE storyboardJson.storyboards

\* .map(seg => ({ status: seg.status || 'pending', ... }))
mapStatusOrPending(segs) ==
  [i \in 1 .. Len(segs) |-> [status |-> statusOrPending(segs[i])]]

\* t.segments is the list the backend merged from segment_urls
getNextSegmentIndex(t) ==
  IF t.storyboardJson.empty THEN NULL
  ELSE IF \/ startsWithGeneratingSegment(t.status)
          \/ t.status = "merging"
          \/ t.status = "storyboard_generating"
       THEN NULL
  ELSE IF t.status = "completed" THEN NULL
  ELSE LET useTaskSegments == Len(t.segments) > 0
           segments == IF useTaskSegments THEN t.segments
                       ELSE mapStatusOrPending(parseStoryboardSegments(t.storyboardJson))
       IN  IF Len(segments) = 0 THEN NULL
           ELSE scanSegments(t, segments, 0)

(* ---------------- the list helpers of lib/batchUtils.ts ------------------ *)

\* A url is a string; "" stands for undefined, null or the empty string.
\* a || b
orElse(a, b) == IF a # "" THEN a ELSE b

\* task.openingImageUrl as a url
openingImageUrl(t) == IF t.openingImageUrl THEN "opening_image" ELSE ""

\* selectedRecordIds.length > 0 ? tasks.filter(t => selectedRecordIds.includes(t.id)) : tasks
tasksToProcess(ts, sel) ==
  IF sel # {} THEN SelectSeq(ts, LAMBDA t : t.id \in sel) ELSE ts

\* the input frame taken from the segment being generated instead of the one
\* before it
inputFrameOfCurrent(t, nextSeg, storyboards) ==
  IF nextSeg = 0 THEN openingImageUrl(t)
  ELSE LET fromTask == IF nextSeg < Len(t.segments)
                       THEN t.segments[nextSeg + 1].lastFrameUrl ELSE ""
           sb == storyboards[nextSeg + 1]
       IN  orElse(fromTask, orElse(sb.lastFrameUrl, sb.last_frame_url))

\* "确定输入帧": prevSegFromTask?.lastFrameUrl || prevSegFromStoryboard?.lastFrameUrl
\*               || prevSegFromStoryboard?.last_frame_url
inputFrame(t, nextSeg, storyboards) ==
  IF nextSeg = 0 THEN openingImageUrl(t)
  ELSE LET prevSegFromTask == IF nextSeg - 1 < Len(t.segments)
                              THEN t.segments[nextSeg].lastFrameUrl ELSE ""
           prevSegFromStoryboard == IF nextSeg - 1 < Len(storyboards)
                                    THEN storyboards[nextSeg]
                                    ELSE [lastFrameUrl |-> "", last_frame_url |-> ""]
       IN  orElse(prevSegFromTask,
                  orElse(prevSegFromStoryboard.lastFrameUrl,
                         prevSegFromStoryboard.last_frame_url))

\* tasksToProcess.forEach((task, idx) => ...) from 0-based position idx on; the
\* prompt fields of an entry (segment) are left out
RECURSIVE pendingFrom(_, _)
pendingFrom(ts, idx) ==
  IF idx >= Len(ts) THEN << >>
  ELSE LET t == ts[idx + 1]
           nextSeg == getNextSegmentIndex(t)
           storyboards == parseStoryboardSegments(t.storyboardJson)
       IN  IF nextSeg = NULL THEN pendingFrom(ts, idx + 1)
           ELSE IF nextSeg >= Len(storyboards) THEN pendingFrom(ts, idx + 1)
           ELSE << [ taskId |-> t.id,
                     taskIndex |-> idx,
                     segmentIndex |-> nextSeg,
                     inputFrameUrl |-> inputFrame(t, nextSeg, storyboards) ] >>
                \o pendingFrom(ts, idx + 1)

calculatePendingSegments(ts, sel) == pendingFrom(tasksToProcess(ts, sel), 0)

\* the segment indices some task of the list is to generate next
nextSegs(ts) ==
  { getNextSegmentIndex(ts[i]) : i \in 1 .. Len(ts) } \ { NULL }

\* the ids of a task list, in order
idsOf(ts) == [i \in 1 .. Len(ts) |-> ts[i].taskId]

\* a grouping that puts a task into the group of every index it has reached
groupIdsFrom(ts, k) ==
  LET T == SelectSeq(ts, LAMBDA t : /\ getNextSegmentIndex(t) # NULL
                                    /\ getNextSegmentIndex(t) <= k)
  IN  [i \in 1 .. Len(T) |-> T[i].id]

\* segmentGroups[nextSeg].push(task.id), for one nextSeg
groupIds(ts, k) ==
  LET T == SelectSeq(ts, LAMBDA t : getNextSegmentIndex(t) = k)
  IN  [i \in 1 .. Len(T) |-> T[i].id]

\* a Record<number, string[]> is a function from its keys to id lists
groupTasksBySegmentIndex(ts, sel) ==
  LET P == tasksToProcess(ts, sel)
  IN  [k \in nextSegs(P) |-> groupIds(P, k)]

\* "按段索引分组调用生成 API": edits.forEach(e => segmentGroups[e.segmentIndex].push(e.taskId))
editGroups(edits) ==
  [k \in { edits[i].segmentIndex : i \in 1 .. Len(edits) } |->
     idsOf(SelectSeq(edits, LAMBDA e : e.segmentIndex = k))]

\* Object.keys(segmentGroups).map(Number).sort((a, b) => a - b)
RECURSIVE sortedIndices(_)
sortedIndices(S) ==
  IF S = {} THEN << >>
  ELSE LET m == CHOOSE x \in S : \A y \in S : x <= y
       IN  << m >> \o sortedIndices(S \ {m})

\* a filter that looks at the segments instead of the status
filterTasksAllCompleted(ts) ==
  SelectSeq(ts, LAMBDA t : /\ Len(t.segments) > 0
                           /\ \A i \in 1 .. Len(t.segments) :
                                t.segments[i].status = "completed")

\* tasks.filter(t => t.status === 'all_segments_ready')
filterTasksForMerge(ts) ==
  SelectSeq(ts, LAMBDA t : t.status = "all_segments_ready")

(* ------------------------- the unit as a BatchTask ----------------------- *)

\* parse_feishu_record_to_task: segments are read from segment_urls only
parse_feishu_record_to_task(u) ==
  [ storyboardJson  |-> [empty |-> FALSE,
                         storyboards |-> [i \in 1 .. TotalSegments |-> [status |-> ""]]],
    status          |-> status[u],
    segments        |-> [i \in 1 .. TotalSegments |->
                            [status |-> segment_urls[u][i - 1].status]],
    openingImageUrl |-> opening_image[u] ]

(* ------------------------------ Lock Manager ----------------------------- *)

OpKinds == { "generate_segment", "retry", "edit_regenerate", "cascade_redo" }
SegmentKinds == { "generate_segment", "retry", "edit_regenerate" }

\* the operation label of a request, e.g. generate_segment_2
operation(r) == [kind |-> r.kind, k |-> r.k]

LocksOf(u) == { L \in locks : L.unitId = u }
LiveLocks(u) == { L \in LocksOf(u) : now < L.expiresAt }

\* a lock service that grants every call
try_lock_unchecked(u, op) == [ok |-> TRUE, holder |-> op]

\* a lock service that never looks at the expiry time
try_lock_no_expiry(u, op) ==
  IF LocksOf(u) = {}
  THEN [ok |-> TRUE, holder |-> op]
  ELSE [ok |-> FALSE, holder |-> (CHOOSE L \in LocksOf(u) : TRUE).operation]

\* try_lock(project_id, operation, timeout=0) -> (success, holder's label)
try_lock(u, op) ==
  IF LiveLocks(u) = {}
  THEN [ok |-> TRUE, holder |-> op]
  ELSE [ok |-> FALSE, holder |-> (CHOOSE L \in LiveLocks(u) : TRUE).operation]

\* the table after a granted try_lock: an expired lock of the unit is replaced
lock_granted(u, op, o) ==
  { L \in locks : L.unitId # u \/ now < L.expiresAt }
    \cup { [unitId |-> u, operation |-> op, holder |-> o,
            acquiredAt |-> now, expiresAt |-> now + LockTTL] }

\* release_lock(project_id)
release_lock(u) == { L \in locks : L.unitId # u }

(* ------------------------------ State Machine ---------------------------- *)

completed_count(urls) ==
  Cardinality({ i \in DOMAIN urls : urls[i].status = "completed" })

\* the tail of TaskStatusService.update_segment_result
derive_status(urls) ==
  IF completed_count(urls) = TotalSegments
  THEN "all_segments_ready"
  ELSE "storyboard_ready"

\* what is pushed to the local file and to the Feishu record
Projection(u) == [status |-> status[u], segment_urls |-> segment_urls[u]]

Snapshot(u) ==
  [ status |-> status[u], error_message |-> error_message[u],
    segment_urls |-> segment_urls[u], storyboard_json |-> storyboard_json[u],
    segment_history |-> segment_history[u] ]

NoReq ==
  [ unit |-> "u1", kind |-> "none", k |-> 0, reset |-> FALSE, art |-> 0,
    cur |-> 0, outcome |-> "none" ]
NoSnapshot ==
  [ status |-> "none", error_message |-> "none", segment_urls |-> << >>,
    storyboard_json |-> << >>, segment_history |-> {} ]
NoRes == [code |-> "none"]

(* --------------------------------- Init ---------------------------------- *)

NoTask ==
  [ storyboardJson |-> [empty |-> TRUE, storyboards |-> << >>],
    status |-> "pending", segments |-> << >>,
    openingImageUrl |-> FALSE ]

NoOut == [fn |-> "none"]

AsyncOps ==
  { "connect", "loadTasks", "syncTasks", "generateStoryboard", "generateSegment",
    "merge", "sync", "uploadToDrive" }

PageStatus ==
  { "idle", "connecting", "loadingTasks", "generatingStoryboard",
    "generatingSegment", "merging", "syncing", "uploadingToDrive", "error" }

\* the page as it is mounted: idle, not connected, nothing requested.
\* appSecret tells whether feishuConfig.appSecret holds a secret; feishu_config
\* is the localStorage entry; restoring tells whether the mount effect
\* restoreConfigFromBackend is still under way.
\* latest follows the task-list request issued last (the pool it is pending
\* in, then its outcome); shown and lastSeen name the request whose response
\* the task list and lastTaskStatusRef hold
initialPage ==
  [ status |-> "idle", errorMessage |-> "null",
    connected |-> FALSE, appSecret |-> FALSE,
    feishu_config |-> [appSecret |-> FALSE, connected |-> FALSE],
    restoring |-> FALSE,
    pending |-> [op \in AsyncOps |-> 0],
    latest |-> "none", shown |-> "none", lastSeen |-> "none" ]

\* no modal is open; useState's initial values
closedModal ==
  [ isOpen |-> FALSE, status |-> "editing", editStates |-> << >>, result |-> "null",
    single |-> [isOpen |-> FALSE, status |-> "editing", crucial |-> "",
                error |-> "null", submitted |-> << >>] ]

BatchIdle ==
  /\ tasks = << >> /\ selectedRecordIds = {} /\ out = NoOut /\ page = initialPage
  /\ modal = closedModal
HelperIdle == task = NoTask /\ picked = << >> /\ BatchIdle

\* a unit whose first n segments were generated by earlier requests 1 .. n
generated_prefix(n) ==
  [i \in Segs |-> IF i < n
                  THEN [status |-> "completed", video_url |-> i + 1, last_frame |-> i + 1]
                  ELSE PendingResult]

\* The unit has its storyboard and some prefix of its segments; the local
\* file and the Feishu record are in step with the database; no operation
\* runs.
EngineInit ==
  /\ now = 0
  /\ locks = {}
  /\ round = [u \in Units |-> {}]
  /\ \E n \in 0 .. TotalSegments :
       /\ segment_urls = [u \in Units |-> generated_prefix(n)]
       /\ opening_image \in [Units -> BOOLEAN]
       /\ \A u \in Units : n > 0 => opening_image[u]
  /\ status = [u \in Units |-> derive_status(segment_urls[u])]
  /\ error_message = [u \in Units |-> "none"]
  /\ storyboard_json = [u \in Units |-> [i \in Segs |-> "script"]]
  /\ segment_history = [u \in Units |-> {}]
  /\ local_file = [u \in Units |-> Projection(u)]
  /\ feishu = local_file
  /\ nextArtifact = TotalSegments + 1
  /\ pc = [o \in Ops |-> "idle"]
  /\ req = [o \in Ops |-> NoReq]
  /\ before = [o \in Ops |-> NoSnapshot]
  /\ wlog = [o \in Ops |-> << >>]
  /\ flt = [o \in Ops |-> {}]
  /\ res = [o \in Ops |-> NoRes]

Init == EngineInit /\ HelperIdle

(* ------------------------- requests of the batch page -------------------- *)

\* TaskDetail: the regenerate / retry button of segment i
canRegenerate(t, i) ==
  t.segments[i + 1].status \in {"completed", "failed"}

\* TaskDetail: the cascade redo button of segment i
canCascadeRedo(t, i) == t.segments[i + 1].status = "completed"

\* handleAdvanceNextStep / handleBatchEditConfirm: the segment index of the task
canAdvance(t, i) == getNextSegmentIndex(t) = i

\* A user action of the page: the request is built from the task list as
\* loaded, and reaches the backend in a later step (TryAcquire).
Request(o) ==
  /\ pc[o] = "idle"
  /\ nextArtifact <= TotalSegments + MaxRequests
  /\ \E u \in Units, kind \in OpKinds, k \in Segs, reset \in BOOLEAN :
       LET t == parse_feishu_record_to_task(u) IN
       /\ \/ kind = "generate_segment" /\ canAdvance(t, k) /\ ~reset
          \/ kind = "edit_regenerate" /\ canRegenerate(t, k) /\ ~reset
          \/ kind = "retry" /\ canRegenerate(t, k) /\ ~reset
          \/ kind = "cascade_redo" /\ canCascadeRedo(t, k)
       /\ req' = [req EXCEPT ![o] =
            [ unit |-> u, kind |-> kind, k |-> k, reset |-> reset,
              art |-> nextArtifact, cur |-> k, outcome |-> "none" ]]
  /\ nextArtifact' = nextArtifact + 1
  /\ pc' = [pc EXCEPT ![o] = "requested"]
  /\ UNCHANGED << now, locks, round, storeVars, opening_image, replicaVars,
                  before, wlog, flt, res, helperVars >>

(* ------------------------- lock acquire and release ---------------------- *)

\* the calls answered while the lock of the unit is live
round_after(u, o, r) ==
  LET call == [op |-> o, ok |-> r.ok, holder |-> r.holder] IN
  IF LiveLocks(u) = {} THEN {call} ELSE round[u] \cup {call}

\* a handler that writes the conflict into the unit's error message
TryAcquireRecordingConflict(o) ==
  /\ pc[o] = "requested"
  /\ LET u == req[o].unit
         r == try_lock(u, operation(req[o]))
     IN /\ round' = [round EXCEPT ![u] = round_after(u, o, r)]
        /\ IF r.ok
           THEN /\ locks' = lock_granted(u, operation(req[o]), o)
                /\ before' = [before EXCEPT ![o] = Snapshot(u)]
                /\ pc' = [pc EXCEPT ![o] =
                     IF req[o].kind = "cascade_redo" THEN "backup" ELSE "validate"]
                /\ req' = req
                /\ UNCHANGED error_message
           ELSE /\ pc' = [pc EXCEPT ![o] = "idle"]
                /\ req' = [req EXCEPT ![o] = NoReq]
                /\ error_message' = [error_message EXCEPT ![u] = "conflict"]
                /\ UNCHANGED << locks, before >>
  /\ UNCHANGED << now, status, segment_urls, storyboard_json, segment_history,
                  opening_image, replicaVars, nextArtifact, wlog, flt, res,
                  helperVars >>

\* success, holder = await lock_service.try_lock(project_id, operation, timeout=0)
\* if not success: raise HTTPException(409, holder) - the request is over
TryAcquire(o) ==
  /\ pc[o] = "requested"
  /\ LET u == req[o].unit
         r == try_lock(u, operation(req[o]))
     IN /\ round' = [round EXCEPT ![u] = round_after(u, o, r)]
        /\ IF r.ok
           THEN /\ locks' = lock_granted(u, operation(req[o]), o)
                /\ before' = [before EXCEPT ![o] = Snapshot(u)]
                /\ pc' = [pc EXCEPT ![o] =
                     IF req[o].kind = "cascade_redo" THEN "backup" ELSE "validate"]
                /\ req' = req
           ELSE /\ pc' = [pc EXCEPT ![o] = "idle"]
                /\ req' = [req EXCEPT ![o] = NoReq]
                /\ UNCHANGED << locks, before >>
  /\ UNCHANGED << now, storeVars, opening_image, replicaVars, nextArtifact,
                  wlog, flt, res, helperVars >>

\* a handler without the finally: the lock is released on success only
ReleaseOnSuccessOnly(o) ==
  /\ pc[o] = "release"
  /\ locks' = IF res[o].code = "ok" THEN { L \in locks : L.unitId # req[o].unit }
              ELSE locks
  /\ round' = [round EXCEPT ![req[o].unit] = {}]
  /\ pc' = [pc EXCEPT ![o] = "idle"]
  /\ req' = [req EXCEPT ![o] = NoReq]
  /\ before' = [before EXCEPT ![o] = NoSnapshot]
  /\ wlog' = [wlog EXCEPT ![o] = << >>]
  /\ flt' = [flt EXCEPT ![o] = {}]
  /\ res' = [res EXCEPT ![o] = NoRes]
  /\ UNCHANGED << now, storeVars, opening_image, replicaVars, nextArtifact,
                  helperVars >>

\* finally: await lock_service.release_lock(project_id); the response is
\* delivered and the worker is free again
Release(o) ==
  /\ pc[o] = "release"
  /\ locks' = release_lock(req[o].unit)
  /\ round' = [round EXCEPT ![req[o].unit] = {}]
  /\ pc' = [pc EXCEPT ![o] = "idle"]
  /\ req' = [req EXCEPT ![o] = NoReq]
  /\ before' = [before EXCEPT ![o] = NoSnapshot]
  /\ wlog' = [wlog EXCEPT ![o] = << >>]
  /\ flt' = [flt EXCEPT ![o] = {}]
  /\ res' = [res EXCEPT ![o] = NoRes]
  /\ UNCHANGED << now, storeVars, opening_image, replicaVars, nextArtifact,
                  helperVars >>

(* ------------------------------ segment stage ---------------------------- *)

\* a check that looks at the opening image only
validate_opening_only(u, k) == opening_image[u]

\* predecessor completed, or index 0 with the opening image present
validate_dependency(u, k) ==
  IF k = 0 THEN opening_image[u]
  ELSE segment_urls[u][k - 1].status = "completed"

Validate(o) ==
  /\ pc[o] = "validate"
  /\ IF validate_dependency(req[o].unit, req[o].k)
     THEN /\ pc' = [pc EXCEPT ![o] = "archive"]
          /\ res' = res
     ELSE /\ pc' = [pc EXCEPT ![o] = "release"]
          /\ res' = [res EXCEPT ![o].code = "ValidationError"]
  /\ UNCHANGED << now, locks, round, storeVars, opening_image, replicaVars,
                  nextArtifact, req, before, wlog, flt, helperVars >>

ArchiveEntry(i, result) ==
  [segmentIndex |-> i, snapshot |-> result, archived_at |-> now]

\* a regeneration that does not archive
ArchiveSkipped(o) ==
  /\ pc[o] = "archive"
  /\ pc' = [pc EXCEPT ![o] =
       IF req[o].kind = "edit_regenerate" THEN "savePrompt" ELSE "mark"]
  /\ UNCHANGED << now, locks, round, storeVars, opening_image, replicaVars,
                  nextArtifact, req, before, wlog, flt, res, helperVars >>

\* the old result of a completed segment goes to segment_history before the
\* segment is touched; the write may fail
ArchiveOld(o) ==
  /\ pc[o] = "archive"
  /\ LET u == req[o].unit
         k == req[o].k
         next == IF req[o].kind = "edit_regenerate" THEN "savePrompt" ELSE "mark"
     IN IF segment_urls[u][k].status = "completed"
        THEN \E ok \in BOOLEAN :
               IF ok
               THEN /\ segment_history' = [segment_history EXCEPT ![u] =
                         @ \cup {ArchiveEntry(k, segment_urls[u][k])}]
                    /\ wlog' = [wlog EXCEPT ![o] = Append(@, "archive")]
                    /\ pc' = [pc EXCEPT ![o] = next]
                    /\ UNCHANGED << res, flt >>
               ELSE /\ pc' = [pc EXCEPT ![o] = "release"]
                    /\ res' = [res EXCEPT ![o].code = "PersistenceError"]
                    /\ flt' = [flt EXCEPT ![o] = @ \cup {"archive"}]
                    /\ UNCHANGED << segment_history, wlog >>
        ELSE /\ pc' = [pc EXCEPT ![o] = next]
             /\ UNCHANGED << segment_history, wlog, res, flt >>
  /\ UNCHANGED << now, locks, round, status, error_message, segment_urls,
                  storyboard_json, opening_image, replicaVars, nextArtifact,
                  req, before, helperVars >>

\* edit_and_regenerate: task_service.save_storyboard(..., status="editing")
SavePrompt(o) ==
  /\ pc[o] = "savePrompt"
  /\ LET u == req[o].unit
         k == req[o].k
     IN /\ storyboard_json' = [storyboard_json EXCEPT ![u][k] = "edited"]
        /\ status' = [status EXCEPT ![u] = "editing"]
  /\ wlog' = [wlog EXCEPT ![o] = Append(@, "db")]
  /\ pc' = [pc EXCEPT ![o] = "mark"]
  /\ UNCHANGED << now, locks, round, error_message, segment_urls, opening_image,
                  segment_history, replicaVars, nextArtifact, req, before, flt,
                  res, helperVars >>

\* the unit enters generating_segment_k and the segment becomes generating
Mark(o) ==
  /\ pc[o] = "mark"
  /\ LET u == req[o].unit
         k == req[o].k
     IN /\ status' = [status EXCEPT ![u] = generating_segment(k)]
        /\ segment_urls' = [segment_urls EXCEPT ![u][k] =
             [status |-> "generating", video_url |-> 0, last_frame |-> 0]]
  /\ wlog' = [wlog EXCEPT ![o] = Append(@, "db")]
  /\ pc' = [pc EXCEPT ![o] = "provider"]
  /\ UNCHANGED << now, locks, round, error_message, storyboard_json,
                  opening_image, segment_history, replicaVars, nextArtifact,
                  req, before, flt, res, helperVars >>

\* the video provider answers: a video, an error, or nothing within the timeout
Provider(o) ==
  /\ pc[o] = "provider"
  /\ \E outcome \in {"success", "failure", "timeout"} :
       /\ req' = [req EXCEPT ![o].outcome = outcome]
       /\ pc' = [pc EXCEPT ![o] = IF outcome = "success" THEN "saveDb" ELSE "failDb"]
  /\ UNCHANGED << now, locks, round, storeVars, opening_image, replicaVars,
                  nextArtifact, before, wlog, flt, res, helperVars >>

\* TaskStatusService.update_segment_result
\* the behaviour the quoted code was fixed to drop: the status moves on to
\* the next generating_segment marker
update_segment_result_next(urls, k, video_url, last_frame) ==
  [ segment_urls |-> [urls EXCEPT ![k] =
      [status |-> "completed", video_url |-> video_url, last_frame |-> last_frame]],
    status |-> generating_segment(k + 1) ]

update_segment_result(urls, k, video_url, last_frame) ==
  LET segment_urls_ == [urls EXCEPT ![k] =
        [status |-> "completed", video_url |-> video_url, last_frame |-> last_frame]]
  IN  [segment_urls |-> segment_urls_, status |-> derive_status(segment_urls_)]

\* save_segment_result, step 1: the database write; it must succeed
\* a result write treated as best effort: its failure is noted and the
\* operation goes on to the local file
SaveDbBestEffort(o) ==
  /\ pc[o] = "saveDb"
  /\ \E ok \in BOOLEAN :
       IF ok
       THEN /\ segment_urls' = [segment_urls EXCEPT ![req[o].unit][req[o].k] =
                 [status |-> "completed", video_url |-> req[o].art,
                  last_frame |-> req[o].art]]
            /\ status' = [status EXCEPT ![req[o].unit] =
                 derive_status(segment_urls'[req[o].unit])]
            /\ wlog' = [wlog EXCEPT ![o] = Append(@, "db")]
            /\ flt' = flt
       ELSE /\ flt' = [flt EXCEPT ![o] = @ \cup {"db"}]
            /\ UNCHANGED << segment_urls, status, wlog >>
  /\ pc' = [pc EXCEPT ![o] = "saveLocal"]
  /\ UNCHANGED << now, locks, round, error_message, storyboard_json,
                  opening_image, segment_history, replicaVars, nextArtifact,
                  req, before, res, helperVars >>

SaveDb(o) ==
  /\ pc[o] = "saveDb"
  /\ LET u == req[o].unit
         w == update_segment_result(segment_urls[u], req[o].k, req[o].art, req[o].art)
     IN \E ok \in BOOLEAN :
          IF ok
          THEN /\ segment_urls' = [segment_urls EXCEPT ![u] = w.segment_urls]
               /\ status' = [status EXCEPT ![u] = w.status]
               /\ wlog' = [wlog EXCEPT ![o] = Append(@, "db")]
               /\ pc' = [pc EXCEPT ![o] = "saveLocal"]
               /\ flt' = flt
          ELSE /\ pc' = [pc EXCEPT ![o] = "restore"]
               /\ flt' = [flt EXCEPT ![o] = @ \cup {"db"}]
               /\ UNCHANGED << segment_urls, status, wlog >>
  /\ UNCHANGED << now, locks, round, error_message, storyboard_json,
                  opening_image, segment_history, replicaVars, nextArtifact,
                  req, before, res, helperVars >>

\* save_segment_result, step 2: the local file, in try/except
\* a local write outside try/except: its failure ends the operation
SaveLocalUnguarded(o) ==
  /\ pc[o] = "saveLocal"
  /\ \E ok \in BOOLEAN :
       IF ok
       THEN /\ local_file' = [local_file EXCEPT ![req[o].unit] = Projection(req[o].unit)]
            /\ wlog' = [wlog EXCEPT ![o] = Append(@, "local")]
            /\ pc' = [pc EXCEPT ![o] = "saveFeishu"]
            /\ UNCHANGED << flt, res >>
       ELSE /\ flt' = [flt EXCEPT ![o] = @ \cup {"local"}]
            /\ res' = [res EXCEPT ![o].code = "PersistenceError"]
            /\ pc' = [pc EXCEPT ![o] = "release"]
            /\ UNCHANGED << local_file, wlog >>
  /\ UNCHANGED << now, locks, round, storeVars, opening_image, feishu,
                  nextArtifact, req, before, helperVars >>

SaveLocal(o) ==
  /\ pc[o] = "saveLocal"
  /\ LET u == req[o].unit IN
     \E ok \in BOOLEAN :
       IF ok
       THEN /\ local_file' = [local_file EXCEPT ![u] = Projection(u)]
            /\ wlog' = [wlog EXCEPT ![o] = Append(@, "local")]
            /\ flt' = flt
       ELSE /\ flt' = [flt EXCEPT ![o] = @ \cup {"local"}]
            /\ UNCHANGED << local_file, wlog >>
  /\ pc' = [pc EXCEPT ![o] = "saveFeishu"]
  /\ UNCHANGED << now, locks, round, storeVars, opening_image, feishu,
                  nextArtifact, req, before, res, helperVars >>

\* save_segment_result, step 3: the Feishu record, in try/except
SaveFeishu(o) ==
  /\ pc[o] = "saveFeishu"
  /\ LET u == req[o].unit IN
     \E ok \in BOOLEAN :
       IF ok
       THEN /\ feishu' = [feishu EXCEPT ![u] = Projection(u)]
            /\ wlog' = [wlog EXCEPT ![o] = Append(@, "feishu")]
            /\ flt' = flt
       ELSE /\ flt' = [flt EXCEPT ![o] = @ \cup {"feishu"}]
            /\ UNCHANGED << feishu, wlog >>
  /\ res' = [res EXCEPT ![o].code = "ok"]
  /\ pc' = [pc EXCEPT ![o] = "release"]
  /\ UNCHANGED << now, locks, round, storeVars, opening_image, local_file,
                  nextArtifact, req, before, helperVars >>

(* ------------------- generation failed: the except branch ---------------- *)

\* TaskStatusService.update_task_status(status, error_message); "None" is
\* the default of the parameter: the stored message is kept
update_task_status(u, new_status, msg) ==
  /\ status' = [status EXCEPT ![u] = new_status]
  /\ error_message' = [error_message EXCEPT ![u] = IF msg = "None" THEN @ ELSE msg]

\* an except branch without the status rollback: the segment is marked
\* failed, the status stays where it was
FailDbKeepStatus(o) ==
  /\ pc[o] = "failDb"
  /\ segment_urls' = [segment_urls EXCEPT ![req[o].unit][req[o].k] =
       [status |-> "failed", video_url |-> 0, last_frame |-> 0]]
  /\ error_message' = [error_message EXCEPT ![req[o].unit] = req[o].outcome]
  /\ wlog' = [wlog EXCEPT ![o] = Append(@, "db")]
  /\ res' = [res EXCEPT ![o].code = "UpstreamError"]
  /\ pc' = [pc EXCEPT ![o] = "failLocal"]
  /\ UNCHANGED << now, locks, round, status, storyboard_json, opening_image,
                  segment_history, replicaVars, nextArtifact, req, before, flt,
                  helperVars >>

\* the segment is marked failed and the unit goes back to storyboard_ready
FailDb(o) ==
  /\ pc[o] = "failDb"
  /\ LET u == req[o].unit
         k == req[o].k
     IN /\ segment_urls' = [segment_urls EXCEPT ![u][k] =
             [status |-> "failed", video_url |-> 0, last_frame |-> 0]]
        /\ update_task_status(u, "storyboard_ready", req[o].outcome)
  /\ wlog' = [wlog EXCEPT ![o] = Append(@, "db")]
  /\ res' = [res EXCEPT ![o].code = "UpstreamError"]
  /\ pc' = [pc EXCEPT ![o] = "failLocal"]
  /\ UNCHANGED << now, locks, round, storyboard_json, opening_image,
                  segment_history, replicaVars, nextArtifact, req, before, flt,
                  helperVars >>

\* write_meta_json(storage_path, "storyboard_ready", error_msg): not guarded,
\* an exception leaves the except branch at once
FailLocal(o) ==
  /\ pc[o] = "failLocal"
  /\ LET u == req[o].unit IN
     \E ok \in BOOLEAN :
       IF ok
       THEN /\ local_file' = [local_file EXCEPT ![u] = Projection(u)]
            /\ wlog' = [wlog EXCEPT ![o] = Append(@, "local")]
            /\ pc' = [pc EXCEPT ![o] = "failFeishu"]
            /\ flt' = flt
       ELSE /\ flt' = [flt EXCEPT ![o] = @ \cup {"local"}]
            /\ pc' = [pc EXCEPT ![o] = "release"]
            /\ UNCHANGED << local_file, wlog >>
  /\ UNCHANGED << now, locks, round, storeVars, opening_image, feishu,
                  nextArtifact, req, before, res, helperVars >>

\* await feishu_service.update_record(..., {"status": "storyboard_ready"})
FailFeishu(o) ==
  /\ pc[o] = "failFeishu"
  /\ LET u == req[o].unit IN
     \E ok \in BOOLEAN :
       IF ok
       THEN /\ feishu' = [feishu EXCEPT ![u] = Projection(u)]
            /\ wlog' = [wlog EXCEPT ![o] = Append(@, "feishu")]
            /\ flt' = flt
       ELSE /\ flt' = [flt EXCEPT ![o] = @ \cup {"feishu"}]
            /\ UNCHANGED << feishu, wlog >>
  /\ pc' = [pc EXCEPT ![o] = "release"]
  /\ UNCHANGED << now, locks, round, storeVars, opening_image, local_file,
                  nextArtifact, req, before, res, helperVars >>

\* PersistenceError: the operation is aborted and the unit is put back as it
\* was before the operation; nothing is pushed to the local file or to Feishu
Restore(o) ==
  /\ pc[o] = "restore"
  /\ LET u == req[o].unit IN
       /\ status' = [status EXCEPT ![u] = before[o].status]
       /\ error_message' = [error_message EXCEPT ![u] = before[o].error_message]
       /\ segment_urls' = [segment_urls EXCEPT ![u] = before[o].segment_urls]
       /\ storyboard_json' = [storyboard_json EXCEPT ![u] = before[o].storyboard_json]
  /\ res' = [res EXCEPT ![o].code = "PersistenceError"]
  /\ pc' = [pc EXCEPT ![o] = "release"]
  /\ UNCHANGED << now, locks, round, opening_image, segment_history,
                  replicaVars, nextArtifact, req, before, wlog, flt, helperVars >>

(* ------------------------------- cascade redo ---------------------------- *)

\* a cascade that clears each segment right after archiving it
BackupClearing(o) ==
  /\ pc[o] = "backup"
  /\ LET u == req[o].unit
         i == req[o].cur
     IN
     IF i >= TotalSegments
     THEN /\ pc' = [pc EXCEPT ![o] = "clear"]
          /\ UNCHANGED << segment_history, segment_urls, wlog, res, req, flt >>
     ELSE IF segment_urls[u][i].status # "completed"
     THEN /\ req' = [req EXCEPT ![o].cur = i + 1]
          /\ UNCHANGED << segment_history, segment_urls, wlog, res, pc, flt >>
     ELSE \E ok \in BOOLEAN :
            IF ok
            THEN /\ segment_history' = [segment_history EXCEPT ![u] =
                      @ \cup {[segmentIndex |-> i, snapshot |-> segment_urls[u][i],
                               archived_at |-> now]}]
                 /\ segment_urls' = [segment_urls EXCEPT ![u][i] = PendingResult]
                 /\ wlog' = [wlog EXCEPT ![o] = Append(@, "archive")]
                 /\ req' = [req EXCEPT ![o].cur = i + 1]
                 /\ UNCHANGED << pc, res, flt >>
            ELSE /\ pc' = [pc EXCEPT ![o] = "release"]
                 /\ res' = [res EXCEPT ![o].code = "PersistenceError"]
                 /\ flt' = [flt EXCEPT ![o] = @ \cup {"archive"}]
                 /\ UNCHANGED << segment_history, segment_urls, wlog, req >>
  /\ UNCHANGED << now, locks, round, status, error_message,
                  storyboard_json, opening_image, replicaVars, nextArtifact,
                  before, helperVars >>

\* for i in range(from_segment_index, total): a completed segment is copied
\* to segment_history; a failed archive write aborts the operation before
\* anything is cleared
Backup(o) ==
  /\ pc[o] = "backup"
  /\ LET u == req[o].unit
         i == req[o].cur
     IN
     IF i >= TotalSegments
     THEN /\ pc' = [pc EXCEPT ![o] = "clear"]
          /\ UNCHANGED << segment_history, wlog, res, req, flt >>
     ELSE IF segment_urls[u][i].status # "completed"
     THEN /\ req' = [req EXCEPT ![o].cur = i + 1]
          /\ UNCHANGED << segment_history, wlog, res, pc, flt >>
     ELSE \E ok \in BOOLEAN :
            IF ok
            THEN /\ segment_history' = [segment_history EXCEPT ![u] =
                      @ \cup {ArchiveEntry(i, segment_urls[u][i])}]
                 /\ wlog' = [wlog EXCEPT ![o] = Append(@, "archive")]
                 /\ req' = [req EXCEPT ![o].cur = i + 1]
                 /\ UNCHANGED << pc, res, flt >>
            ELSE /\ pc' = [pc EXCEPT ![o] = "release"]
                 /\ res' = [res EXCEPT ![o].code = "PersistenceError"]
                 /\ flt' = [flt EXCEPT ![o] = @ \cup {"archive"}]
                 /\ UNCHANGED << segment_history, wlog, req >>
  /\ UNCHANGED << now, locks, round, status, error_message, segment_urls,
                  storyboard_json, opening_image, replicaVars, nextArtifact,
                  before, helperVars >>

\* a clearing that spares the segment the redo was asked from
cleared_after(urls, k) ==
  [i \in Segs |-> IF i > k THEN PendingResult ELSE urls[i]]

\* "清空从指定段开始的数据": every segment from from_segment_index on
cleared_segments(urls, k) ==
  [i \in Segs |-> IF i >= k THEN PendingResult ELSE urls[i]]

\* the segments from from_segment_index on are cleared, the script too when
\* regenerate_storyboard is set, and the status is recomputed
Clear(o) ==
  /\ pc[o] = "clear"
  /\ LET u == req[o].unit
         cleared == cleared_segments(segment_urls[u], req[o].k)
     IN \E ok \in BOOLEAN :
          IF ok
          THEN /\ segment_urls' = [segment_urls EXCEPT ![u] = cleared]
               /\ storyboard_json' = [storyboard_json EXCEPT ![u] =
                    [i \in Segs |->
                       IF req[o].reset /\ i >= req[o].k THEN "cleared" ELSE @[i]]]
               /\ update_task_status(u, "storyboard_ready", "None")
               /\ wlog' = [wlog EXCEPT ![o] = Append(@, "db")]
               /\ pc' = [pc EXCEPT ![o] = "saveLocal"]
               /\ UNCHANGED << flt, res >>
          ELSE /\ flt' = [flt EXCEPT ![o] = @ \cup {"db"}]
               /\ res' = [res EXCEPT ![o].code = "PersistenceError"]
               /\ pc' = [pc EXCEPT ![o] = "release"]
               /\ UNCHANGED << storeVars, wlog >>
  /\ UNCHANGED << now, locks, round, opening_image, segment_history,
                  replicaVars, nextArtifact, req, before, helperVars >>

(* ------------------------------ time and death --------------------------- *)

InFlight == { "validate", "archive", "savePrompt", "mark", "provider", "saveDb",
              "saveLocal", "saveFeishu", "failDb", "failLocal", "failFeishu",
              "restore", "backup", "clear", "release" }

\* the worker dies while it waits for the provider: nothing of its operation
\* runs any more, its lock stays in the table
Crash(o) ==
  /\ pc[o] = "provider"
  /\ pc' = [pc EXCEPT ![o] = "dead"]
  /\ UNCHANGED << now, locks, round, storeVars, opening_image, replicaVars,
                  nextArtifact, req, before, wlog, flt, res, helperVars >>

\* Time passes.  A provider call is bounded by a timeout well below the lock
\* TTL, so a live operation is over before its lock expires.
Tick ==
  /\ now < MaxTime
  /\ locks # {}
  /\ \A L \in locks : pc[L.holder] # "dead" => now + 1 < L.expiresAt
  /\ now' = now + 1
  /\ UNCHANGED << locks, round, storeVars, opening_image, replicaVars,
                  nextArtifact, pc, req, before, wlog, flt, res, helperVars >>

(* ------------------------------ reconciliation -------------------------- *)

\* a sweep that refreshes Feishu from the local files
auto_update_from_local_files ==
  /\ \E u \in Units : feishu[u] # Projection(u)
  /\ feishu' = local_file
  /\ UNCHANGED << now, locks, round, storeVars, opening_image, local_file,
                  nextArtifact, pc, req, before, wlog, flt, res, helperVars >>

\* _auto_update_generated_videos, on connecting and on "sync database": walk
\* the projects of the database and push the database's data to Feishu.  The
\* run is taken whole; one that finds nothing to repair, or that fails, leaves
\* everything as it is.
auto_update_generated_videos ==
  /\ \E u \in Units : feishu[u] # Projection(u)
  /\ feishu' = [u \in Units |-> Projection(u)]
  /\ UNCHANGED << now, locks, round, storeVars, opening_image, local_file,
                  nextArtifact, pc, req, before, wlog, flt, res, helperVars >>

(* ---------------------------------- Next --------------------------------- *)

Next ==
  \/ Tick
  \/ auto_update_generated_videos
  \/ \E o \in Ops :
       \/ Request(o) \/ TryAcquire(o) \/ Release(o)
       \/ Validate(o) \/ ArchiveOld(o) \/ SavePrompt(o) \/ Mark(o)
       \/ Provider(o) \/ SaveDb(o) \/ SaveLocal(o) \/ SaveFeishu(o)
       \/ FailDb(o) \/ FailLocal(o) \/ FailFeishu(o) \/ Restore(o)
       \/ Backup(o) \/ Clear(o) \/ Crash(o)

Spec == Init /\ [][Next]_vars

(* --------------- the pure helpers applied to arbitrary tasks ------------- *)

SegmentStatusInputs == { "", "pending", "completed", "failed" }
StoryboardStatusInputs == { "", "completed" }

SeqsUpTo(S, n) == UNION { [1 .. m -> S] : m \in 0 .. n }

\* BatchTask values as the page may hold them
TaskInputs ==
  [ storyboardJson :
      { [empty |-> TRUE, storyboards |-> << >>] } \cup
      [ empty : {FALSE},
        storyboards : SeqsUpTo([status : StoryboardStatusInputs], MaxTaskSegs) ],
    status : BatchTaskStatus,
    segments : SeqsUpTo([status : SegmentStatusInputs], MaxTaskSegs),
    openingImageUrl : BOOLEAN ]

\* the engine does not move while the helpers are exercised
EnginePinned ==
  /\ EngineInit
  /\ \A u \in Units : /\ ~opening_image[u]
                      /\ segment_urls[u] = [i \in Segs |-> PendingResult]

InitHelpers ==
  /\ EnginePinned
  /\ task \in TaskInputs
  /\ picked = << >>
  /\ BatchIdle

\* const nextIndex = getNextSegmentIndex(task)
ApplyGetNextSegmentIndex ==
  /\ picked = << >>
  /\ picked' = << getNextSegmentIndex(task) >>
  /\ UNCHANGED << now, locks, round, storeVars, opening_image, replicaVars,
                  nextArtifact, pc, req, before, wlog, flt, res, task,
                  batchVars, page, modal >>

NextHelpers == ApplyGetNextSegmentIndex

SpecHelpers == InitHelpers /\ [][NextHelpers]_vars

(* --------------- the list helpers applied to task lists ------------------ *)

RecordIds == {"r1", "r2"}

\* entries of BatchTask.segments and of the parsed storyboard, with the last
\* frame fields the input frame is read from
SegmentEntryInputs ==
  [status : {"pending", "completed"}, lastFrameUrl : {"", "seg_last"}]
StoryboardEntryInputs ==
  { [status |-> s, lastFrameUrl |-> f[1], last_frame_url |-> f[2]] :
      s \in StoryboardStatusInputs,
      f \in { << "", "" >>, << "sb_last", "" >>, << "", "sb_last_snake" >> } }

\* one task with every combination of last frame fields
FrameTaskInputs ==
  [ id : {"r1"},
    status : {"storyboard_ready", "generating_segment_1"},
    openingImageUrl : BOOLEAN,
    storyboardJson :
      { [empty |-> TRUE, storyboards |-> << >>] } \cup
      [ empty : {FALSE},
        storyboards : SeqsUpTo(StoryboardEntryInputs, MaxBatchSegs) ],
    segments : SeqsUpTo(SegmentEntryInputs, MaxBatchSegs) ]

\* a segment as the backend merges it: completed segments carry their frame
MergedSegment(st) ==
  [status |-> st, lastFrameUrl |-> IF st = "completed" THEN "seg_last" ELSE ""]
BlankStoryboard ==
  [i \in 1 .. MaxBatchSegs |->
     [status |-> "", lastFrameUrl |-> "", last_frame_url |-> ""]]

\* tasks of a list of several, told apart by id, status and progress
ListTaskInputs(id) ==
  [ id : {id},
    status : {"storyboard_ready", "generating_segment_1", "all_segments_ready"},
    openingImageUrl : BOOLEAN,
    storyboardJson : { [empty |-> TRUE, storyboards |-> << >>],
                       [empty |-> FALSE, storyboards |-> BlankStoryboard] },
    segments : { [i \in 1 .. Len(f) |-> MergedSegment(f[i])] :
                   f \in SeqsUpTo({"pending", "completed"}, MaxBatchSegs) } ]

InitBatch ==
  /\ EnginePinned
  /\ task = NoTask
  /\ picked = << >>
  /\ tasks \in { << t >> : t \in FrameTaskInputs } \cup
               { << a, b >> : a \in ListTaskInputs("r1"), b \in ListTaskInputs("r2") }
  /\ selectedRecordIds \in SUBSET RecordIds
  /\ out = NoOut
  /\ page = initialPage
  /\ modal = closedModal

\* const pendingSegments = calculatePendingSegments(tasks, selectedRecordIds)
ApplyCalculatePendingSegments ==
  /\ out = NoOut
  /\ out' = [ fn |-> "calculatePendingSegments",
              value |-> calculatePendingSegments(tasks, selectedRecordIds) ]
  /\ UNCHANGED << now, locks, round, storeVars, opening_image, replicaVars,
                  nextArtifact, pc, req, before, wlog, flt, res, task, picked,
                  tasks, selectedRecordIds, page, modal >>

\* const segmentGroups = groupTasksBySegmentIndex(tasks, selectedRecordIds)
ApplyGroupTasksBySegmentIndex ==
  /\ out = NoOut
  /\ out' = [ fn |-> "groupTasksBySegmentIndex",
              value |-> groupTasksBySegmentIndex(tasks, selectedRecordIds) ]
  /\ UNCHANGED << now, locks, round, storeVars, opening_image, replicaVars,
                  nextArtifact, pc, req, before, wlog, flt, res, task, picked,
                  tasks, selectedRecordIds, page, modal >>

\* an operation started elsewhere (another page, another user) holds the lock
\* of a record while this page works
OtherOperationAcquires(id) ==
  /\ out = NoOut
  /\ try_lock(id, [kind |-> "generate_segment", k |-> 0]).ok
  /\ locks' = lock_granted(id, [kind |-> "generate_segment", k |-> 0], 0)
  /\ UNCHANGED << now, round, storeVars, opening_image, replicaVars,
                  nextArtifact, pc, req, before, wlog, flt, res, task, picked,
                  batchVars, page, modal >>

NoResult == [success |-> FALSE, successCount |-> 0, failedCount |-> 0]

\* handleAdvanceNextStep opens the modal when pendingSegments is not empty; the
\* modal's handleConfirm passes one edit per pending entry to
\* handleBatchEditConfirm, which saves the modified prompts (saved = FALSE: the
\* request throws and the outer catch returns) and groups the edits
ConfirmBatchEdit ==
  /\ out = NoOut
  /\ LET edits == calculatePendingSegments(tasks, selectedRecordIds)
     IN  /\ edits # << >>
         /\ \E saved \in BOOLEAN :
              out' = [ fn |-> "handleBatchEditConfirm",
                       edits |-> edits,
                       saved |-> saved,
                       segmentGroups |-> editGroups(edits),
                       segmentIndices |->
                         IF saved THEN sortedIndices(DOMAIN editGroups(edits))
                         ELSE << >>,
                       totalSuccess |-> 0,
                       totalFailed |-> 0,
                       calls |-> << >>,
                       at |-> IF saved THEN "generating" ELSE "returned",
                       result |->
                         IF saved THEN NoResult
                         ELSE [ success |-> FALSE, successCount |-> 0,
                                failedCount |-> Len(edits) ] ]
  /\ UNCHANGED << now, locks, round, storeVars, opening_image, replicaVars,
                  nextArtifact, pc, req, before, wlog, flt, res, task, picked,
                  tasks, selectedRecordIds, page, modal >>

UnitOutcomes == { "ok", "ValidationError", "UpstreamError" }

\* a failed request counted as one failure, whatever the size of its group
failedOnThrowOne(recordIds) == 1

\* catch { totalFailed += recordIds.length }
failedOnThrow(recordIds) == Len(recordIds)

\* the batch endpoint's work on one record: try_lock with timeout 0, then the
\* stage, whose outcome is the caller's choice; the lock is released before
\* the response is sent
generate_unit(id, k, choice) ==
  IF try_lock(id, [kind |-> "generate_segment", k |-> k]).ok
  THEN choice ELSE "ConflictError"

\* one pass of "for (const segmentIndex of segmentIndices)": the request
\* either throws or answers with the counts of its per-record results
GenerateSegmentGroup ==
  /\ out.fn = "handleBatchEditConfirm"
  /\ out.at = "generating"
  /\ out.segmentIndices # << >>
  /\ LET segmentIndex == Head(out.segmentIndices)
         recordIds == out.segmentGroups[segmentIndex]
     IN  \E thrown \in BOOLEAN, choice \in [1 .. Len(recordIds) -> UnitOutcomes] :
           LET results == IF thrown THEN << >>
                          ELSE [i \in 1 .. Len(recordIds) |->
                                  generate_unit(recordIds[i], segmentIndex, choice[i])]
               success_count ==
                 Cardinality({ i \in 1 .. Len(results) : results[i] = "ok" })
               failed_count ==
                 Cardinality({ i \in 1 .. Len(results) : results[i] # "ok" })
           IN  /\ thrown => \A i \in 1 .. Len(recordIds) : choice[i] = "ok"
               /\ out' = [ out EXCEPT
                     !.segmentIndices = Tail(@),
                     !.totalSuccess = IF thrown THEN @ ELSE @ + success_count,
                     !.totalFailed = IF thrown THEN @ + failedOnThrow(recordIds)
                                     ELSE @ + failed_count,
                     !.calls = Append(@, [ segmentIndex |-> segmentIndex,
                                           recordIds |-> recordIds,
                                           thrown |-> thrown,
                                           results |-> results ]) ]
  /\ UNCHANGED << now, locks, round, storeVars, opening_image, replicaVars,
                  nextArtifact, pc, req, before, wlog, flt, res, task, picked,
                  tasks, selectedRecordIds, page, modal >>

\* after the loop: return { success: totalFailed === 0, successCount, failedCount }
ReturnBatchEdit ==
  /\ out.fn = "handleBatchEditConfirm"
  /\ out.at = "generating"
  /\ out.segmentIndices = << >>
  /\ out' = [ out EXCEPT
        !.at = "returned",
        !.result = [ success |-> out.totalFailed = 0,
                     successCount |-> out.totalSuccess,
                     failedCount |-> out.totalFailed ] ]
  /\ UNCHANGED << now, locks, round, storeVars, opening_image, replicaVars,
                  nextArtifact, pc, req, before, wlog, flt, res, task, picked,
                  tasks, selectedRecordIds, page, modal >>

\* the merge button: nothing is sent when no task is in scope or none is
\* ready; otherwise the ids of the ready tasks go to the merge endpoint,
\* which answers or throws
handleMergeVideos ==
  /\ out = NoOut
  /\ LET scope == tasksToProcess(tasks, selectedRecordIds)
         readyTasks == filterTasksForMerge(scope)
     IN  IF Len(scope) = 0 \/ Len(readyTasks) = 0
         THEN out' = [ fn |-> "handleMergeVideos", sent |-> FALSE,
                       recordIds |-> << >>, ok |-> FALSE ]
         ELSE \E ok \in BOOLEAN :
                out' = [ fn |-> "handleMergeVideos", sent |-> TRUE,
                         recordIds |->
                           [i \in 1 .. Len(readyTasks) |-> readyTasks[i].id],
                         ok |-> ok ]
  /\ UNCHANGED << now, locks, round, storeVars, opening_image, replicaVars,
                  nextArtifact, pc, req, before, wlog, flt, res, task, picked,
                  tasks, selectedRecordIds, page, modal >>

NextBatch ==
  \/ handleMergeVideos
  \/ ApplyCalculatePendingSegments
  \/ ApplyGroupTasksBySegmentIndex
  \/ \E id \in RecordIds : OtherOperationAcquires(id)
  \/ ConfirmBatchEdit
  \/ GenerateSegmentGroup
  \/ ReturnBatchEdit

SpecBatch == InitBatch /\ [][NextBatch]_vars

(* ------------------- the batch page and its requests --------------------- *)

\* the in-flight status an X_START action sets
StartStatus ==
  [ CONNECT_START |-> "connecting", LOAD_TASKS_START |-> "loadingTasks",
    GENERATE_STORYBOARD_START |-> "generatingStoryboard",
    GENERATE_SEGMENT_START |-> "generatingSegment", MERGE_START |-> "merging",
    SYNC_START |-> "syncing", UPLOAD_TO_DRIVE_START |-> "uploadingToDrive" ]

SuccessTypes ==
  { "LOAD_TASKS_SUCCESS", "GENERATE_STORYBOARD_SUCCESS", "GENERATE_SEGMENT_SUCCESS",
    "MERGE_SUCCESS", "SYNC_SUCCESS", "UPLOAD_TO_DRIVE_SUCCESS" }

FailureTypes ==
  { "CONNECT_FAILURE", "LOAD_TASKS_FAILURE", "GENERATE_STORYBOARD_FAILURE",
    "GENERATE_SEGMENT_FAILURE", "MERGE_FAILURE", "SYNC_FAILURE",
    "UPLOAD_TO_DRIVE_FAILURE" }

\* a reducer whose START actions leave errorMessage as it is
pageReducerKeepingError(state, type) ==
  CASE type \in DOMAIN StartStatus -> [state EXCEPT !.status = StartStatus[type]]
    [] type = "CONNECT_SUCCESS" -> [state EXCEPT !.status = "idle", !.connected = TRUE]
    [] type = "DISCONNECT" -> [state EXCEPT !.connected = FALSE]
    [] type \in SuccessTypes -> [state EXCEPT !.status = "idle"]
    [] type \in FailureTypes ->
         [state EXCEPT !.status = "error", !.errorMessage = "message"]
    [] type = "CLEAR_ERROR" -> [state EXCEPT !.status = "idle", !.errorMessage = "null"]
    [] OTHER -> state

\* pageReducer, on the fields kept here; an action is named by its type, a
\* FAILURE payload is the text "message"
pageReducer(state, type) ==
  CASE type \in DOMAIN StartStatus ->
         [state EXCEPT !.status = StartStatus[type], !.errorMessage = "null"]
    [] type = "CONNECT_SUCCESS" -> [state EXCEPT !.status = "idle", !.connected = TRUE]
    [] type = "DISCONNECT" -> [state EXCEPT !.connected = FALSE]
    [] type \in SuccessTypes -> [state EXCEPT !.status = "idle"]
    [] type \in FailureTypes ->
         [state EXCEPT !.status = "error", !.errorMessage = "message"]
    [] type = "CLEAR_ERROR" -> [state EXCEPT !.status = "idle", !.errorMessage = "null"]
    [] OTHER -> state

\* case 'UPDATE_FEISHU_CONFIG': the payload's fields are laid over feishuConfig
updateFeishuConfig(state, payload) ==
  [ state EXCEPT
      !.connected = IF "connected" \in DOMAIN payload THEN payload.connected ELSE @,
      !.appSecret = IF "appSecret" \in DOMAIN payload THEN payload.appSecret ELSE @ ]

\* useEffect on feishuConfig: localStorage.setItem('feishu_config',
\* JSON.stringify(feishuConfig)), the whole object
persist(state) ==
  [ state EXCEPT !.feishu_config =
      [appSecret |-> state.appSecret, connected |-> state.connected] ]

\* dispatch and the render that follows it, with its effects
dispatch(state, type) == persist(pageReducer(state, type))

\* const isOperating = status !== 'idle' && status !== 'error'
isOperating(state) == state.status # "idle" /\ state.status # "error"

\* the requests sent and not yet answered
InFlightCount(state) ==
  state.pending["connect"] + state.pending["loadTasks"]
    + state.pending["syncTasks"]
    + state.pending["generateStoryboard"] + state.pending["generateSegment"]
    + state.pending["merge"] + state.pending["sync"]
    + state.pending["uploadToDrive"]

\* await batchApi.<op>(...): the request leaves
sent(state, op) == [state EXCEPT !.pending[op] = @ + 1]
\* the awaited request is answered or throws
answered(state, op) == [state EXCEPT !.pending[op] = @ - 1]

\* disabled={status === 'loadingTasks'}
refreshDisabled(state) == state.status = "loadingTasks"

\* a response held so far is no longer that of the request issued last
superseded(held) == IF held = "latest" THEN "earlier" ELSE held

\* LOAD_TASKS_START and the request for the task list leaves, through
\* batchApi.loadTasks or batchApi.syncTasksFromFeishu
requested(state, op) ==
  [ sent(dispatch(state, "LOAD_TASKS_START"), op)
      EXCEPT !.latest = op, !.shown = superseded(@), !.lastSeen = superseded(@) ]

\* loadTasks() up to its await: nothing when not connected
loadTasks(state) ==
  IF ~state.connected THEN state ELSE requested(state, "loadTasks")

\* the requests of a pool issued before the one issued last, still pending
earlierPending(state, op) ==
  state.pending[op] - (IF state.latest = op THEN 1 ELSE 0)

\* lastTaskStatusRef.current = nextMap; dispatch LOAD_TASKS_SUCCESS: the page
\* applies whichever response arrives
loaded(state, op, which) ==
  [ dispatch(answered(state, op), "LOAD_TASKS_SUCCESS")
      EXCEPT !.latest = IF which = "latest" THEN "ok" ELSE @,
             !.shown = which, !.lastSeen = which ]

\* catch: the request threw; type is the action the handler dispatches
loadFailed(state, op, which, type) ==
  [ dispatch(answered(state, op), type)
      EXCEPT !.latest = IF which = "latest" THEN "failed" ELSE @ ]

\* the requests of a pool that may be answered next
Answerable(state, op) ==
  { which \in { "latest", "earlier" } :
      IF which = "latest" THEN state.latest = op
      ELSE earlierPending(state, op) > 0 }

\* filterTasksForStoryboard
filterTasksForStoryboard(ts) ==
  SelectSeq(ts, LAMBDA t : t.openingImageUrl
                           /\ t.status \in { "pending", "storyboard_ready" })

\* the task list a load request may bring back: one task waiting for its
\* first segment and one ready to be merged, each with a project
LoadedTasks ==
  << [ id |-> "r1", status |-> "storyboard_ready", openingImageUrl |-> TRUE,
       storyboardJson |-> [empty |-> FALSE, storyboards |-> BlankStoryboard],
       segments |-> [i \in 1 .. MaxBatchSegs |-> MergedSegment("pending")] ],
     [ id |-> "r2", status |-> "all_segments_ready", openingImageUrl |-> TRUE,
       storyboardJson |-> [empty |-> FALSE, storyboards |-> BlankStoryboard],
       segments |-> [i \in 1 .. MaxBatchSegs |-> MergedSegment("completed")] ] >>

\* loadInitialState: INITIAL_STATE with the saved feishu_config laid over it,
\* which may carry connected = true from an earlier visit
loadInitialState ==
  { [ initialPage EXCEPT !.connected = c, !.feishu_config.connected = c,
                         !.restoring = TRUE ] : c \in BOOLEAN }

InitPage ==
  /\ EnginePinned
  /\ task = NoTask
  /\ picked = << >>
  /\ tasks = << >>
  /\ selectedRecordIds = {}
  /\ out = NoOut
  /\ page \in loadInitialState
  /\ modal = closedModal

PageFrame ==
  UNCHANGED << now, locks, round, storeVars, opening_image, replicaVars,
               nextArtifact, pc, req, before, wlog, flt, res, task, picked,
               selectedRecordIds, out, modal >>

\* the config form, editable while not connected: the user types or clears
\* the app secret
handleConfigChange ==
  /\ ~page.connected
  /\ \E typed \in BOOLEAN :
       /\ typed # page.appSecret
       /\ page' = persist(updateFeishuConfig(page, [appSecret |-> typed]))
  /\ UNCHANGED tasks
  /\ PageFrame

\* the mount effect, run once: nothing to restore or the connection fails, or
\* the connection is rebuilt from the connection detail the backend returns
\* (app_secret included) and UPDATE_FEISHU_CONFIG lays it over feishuConfig
restoreConfigFromBackend ==
  /\ page.restoring
  /\ \/ page' = [page EXCEPT !.restoring = FALSE]
     \/ page' = persist(updateFeishuConfig([page EXCEPT !.restoring = FALSE],
                                           [appSecret |-> TRUE, connected |-> TRUE]))
  /\ UNCHANGED tasks
  /\ PageFrame

\* the "test connection" button, disabled without an app secret
handleConnect ==
  /\ ~page.connected
  /\ page.appSecret
  /\ page.status # "connecting"
  /\ InFlightCount(page) < MaxInFlight
  /\ page' = sent(dispatch(page, "CONNECT_START"), "connect")
  /\ UNCHANGED tasks
  /\ PageFrame

ConnectAnswered ==
  /\ page.pending["connect"] > 0
  /\ \E ok \in BOOLEAN :
       page' = dispatch(answered(page, "connect"),
                        IF ok THEN "CONNECT_SUCCESS" ELSE "CONNECT_FAILURE")
  /\ UNCHANGED tasks
  /\ PageFrame

\* useEffect: connected, no tasks yet and idle -> syncTasksFromFeishu()
syncTasksFromFeishu ==
  /\ page.connected
  /\ Len(tasks) = 0
  /\ page.status = "idle"
  /\ InFlightCount(page) < MaxInFlight
  /\ page' = requested(page, "syncTasks")
  /\ UNCHANGED tasks
  /\ PageFrame

\* the full sync is answered: the list arrives or the request throws
SyncTasksAnswered ==
  /\ \E which \in Answerable(page, "syncTasks") :
       \/ /\ page' = loaded(page, "syncTasks", which)
          /\ tasks' \in { << >>, LoadedTasks }
       \/ /\ page' = loadFailed(page, "syncTasks", which, "LOAD_TASKS_FAILURE")
          /\ UNCHANGED tasks
  /\ PageFrame

\* the refresh button: onClick={loadTasks}
PressRefresh ==
  /\ page.connected
  /\ ~refreshDisabled(page)
  /\ InFlightCount(page) < MaxInFlight
  /\ page' = loadTasks(page)
  /\ UNCHANGED tasks
  /\ PageFrame

\* a load request is answered: the list arrives, or the request throws, or
\* the backend reports that the connection is gone
LoadAnswered ==
  /\ \E which \in Answerable(page, "loadTasks") :
       \/ /\ page' = loaded(page, "loadTasks", which)
          /\ tasks' \in { << >>, LoadedTasks }
       \/ /\ \E type \in { "LOAD_TASKS_FAILURE", "DISCONNECT" } :
               page' = loadFailed(page, "loadTasks", which, type)
          /\ UNCHANGED tasks
  /\ PageFrame

\* a handler dispatches its START action and sends its request
started(state, op, type) == sent(dispatch(state, type), op)

\* its request is answered: SUCCESS and then loadTasks()
succeeded(state, op, type) == loadTasks(dispatch(answered(state, op), type))

\* its request throws: FAILURE
failed(state, op, type) == dispatch(answered(state, op), type)

\* the bottom bar is rendered when connected with tasks; its buttons are
\* disabled while isOperating
BottomBarEnabled ==
  /\ page.connected
  /\ Len(tasks) > 0
  /\ ~isOperating(page)
  /\ InFlightCount(page) < MaxInFlight

handleGenerateStoryboards ==
  /\ BottomBarEnabled
  /\ Len(filterTasksForStoryboard(tasksToProcess(tasks, selectedRecordIds))) > 0
  /\ page' = started(page, "generateStoryboard", "GENERATE_STORYBOARD_START")
  /\ UNCHANGED tasks
  /\ PageFrame

GenerateStoryboardsAnswered ==
  /\ page.pending["generateStoryboard"] > 0
  /\ \/ page' = succeeded(page, "generateStoryboard", "GENERATE_STORYBOARD_SUCCESS")
     \/ page' = failed(page, "generateStoryboard", "GENERATE_STORYBOARD_FAILURE")
  /\ UNCHANGED tasks
  /\ PageFrame

\* handleAdvanceNextStep opens the modal when there are pending segments;
\* handleBatchEditConfirm then dispatches START and sends the generate request
handleBatchEditConfirm ==
  /\ BottomBarEnabled
  /\ Len(calculatePendingSegments(tasks, selectedRecordIds)) > 0
  /\ page' = started(page, "generateSegment", "GENERATE_SEGMENT_START")
  /\ UNCHANGED tasks
  /\ PageFrame

\* a thrown generate request is caught inside the loop: SUCCESS and
\* loadTasks() follow either way
GenerateSegmentsAnswered ==
  /\ page.pending["generateSegment"] > 0
  /\ page' = succeeded(page, "generateSegment", "GENERATE_SEGMENT_SUCCESS")
  /\ UNCHANGED tasks
  /\ PageFrame

\* handleMergeVideos on the page state: MERGE_START and the merge request
MergeStart ==
  /\ BottomBarEnabled
  /\ Len(filterTasksForMerge(tasksToProcess(tasks, selectedRecordIds))) > 0
  /\ page' = started(page, "merge", "MERGE_START")
  /\ UNCHANGED tasks
  /\ PageFrame

MergeAnswered ==
  /\ page.pending["merge"] > 0
  /\ \/ page' = succeeded(page, "merge", "MERGE_SUCCESS")
     \/ page' = failed(page, "merge", "MERGE_FAILURE")
  /\ UNCHANGED tasks
  /\ PageFrame

\* the top bar button, rendered when connected, disabled while isOperating
handleSyncVideos ==
  /\ page.connected
  /\ ~isOperating(page)
  /\ InFlightCount(page) < MaxInFlight
  /\ page' = started(page, "sync", "SYNC_START")
  /\ UNCHANGED tasks
  /\ PageFrame

SyncVideosAnswered ==
  /\ page.pending["sync"] > 0
  /\ \/ page' = succeeded(page, "sync", "SYNC_SUCCESS")
     \/ page' = failed(page, "sync", "SYNC_FAILURE")
  /\ UNCHANGED tasks
  /\ PageFrame

handleSyncToDrive ==
  /\ BottomBarEnabled
  /\ page' = started(page, "uploadToDrive", "UPLOAD_TO_DRIVE_START")
  /\ UNCHANGED tasks
  /\ PageFrame

\* no loadTasks() after an upload
SyncToDriveAnswered ==
  /\ page.pending["uploadToDrive"] > 0
  /\ \E type \in { "UPLOAD_TO_DRIVE_SUCCESS", "UPLOAD_TO_DRIVE_FAILURE" } :
       page' = dispatch(answered(page, "uploadToDrive"), type)
  /\ UNCHANGED tasks
  /\ PageFrame

NextPage ==
  \/ handleConfigChange \/ restoreConfigFromBackend
  \/ handleConnect \/ ConnectAnswered
  \/ syncTasksFromFeishu \/ SyncTasksAnswered \/ PressRefresh \/ LoadAnswered
  \/ handleGenerateStoryboards \/ GenerateStoryboardsAnswered
  \/ handleBatchEditConfirm \/ GenerateSegmentsAnswered
  \/ MergeStart \/ MergeAnswered
  \/ handleSyncVideos \/ SyncVideosAnswered
  \/ handleSyncToDrive \/ SyncToDriveAnswered

SpecPage == InitPage /\ [][NextPage]_vars

\* what the user does; everything else happens by itself
UserAction ==
  \/ handleConfigChange \/ handleConnect \/ PressRefresh
  \/ handleGenerateStoryboards \/ handleBatchEditConfirm \/ MergeStart
  \/ handleSyncVideos \/ handleSyncToDrive

\* React runs an effect whose condition holds, the mount effect finishes, and
\* every request is answered or fails (fetch settles; loadTasks has a timeout)
SpecPageFair ==
  /\ SpecPage
  /\ WF_vars(syncTasksFromFeishu)
  /\ WF_vars(restoreConfigFromBackend)
  /\ WF_vars(ConnectAnswered)
  /\ WF_vars(SyncTasksAnswered)
  /\ WF_vars(LoadAnswered)
  /\ WF_vars(GenerateStoryboardsAnswered)
  /\ WF_vars(GenerateSegmentsAnswered)
  /\ WF_vars(MergeAnswered)
  /\ WF_vars(SyncVideosAnswered)
  /\ WF_vars(SyncToDriveAnswered)

(* --------------------------- the prompt edit modals ---------------------- *)

\* texts of the crucial field: empty, blank, and a description
CrucialTexts == { "", " ", "text" }

\* String.prototype.trim on those texts
trim(text) == IF text = " " THEN "" ELSE text

\* a task with a storyboard whose first n segments are completed
ProgressTask(id, n) ==
  [ id |-> id,
    status |-> IF n = MaxBatchSegs THEN "all_segments_ready" ELSE "storyboard_ready",
    openingImageUrl |-> TRUE,
    storyboardJson |-> [empty |-> FALSE, storyboards |-> BlankStoryboard],
    segments |-> [i \in 1 .. MaxBatchSegs |->
                    MergedSegment(IF i <= n THEN "completed" ELSE "pending")] ]

\* the task lists the page may hold or load
ProgressTaskLists ==
  { << ProgressTask("r1", a), ProgressTask("r2", b) >> :
      a \in 0 .. MaxBatchSegs, b \in 0 .. MaxBatchSegs }

\* `${ps.taskId}-${ps.segmentIndex}`
editKey(ps) == << ps.taskId, ps.segmentIndex >>
editKeys(pendingSegments) ==
  { editKey(pendingSegments[i]) : i \in 1 .. Len(pendingSegments) }

\* the init effect of BatchPromptEditModal, deps [isOpen, pendingSegments]:
\* with the modal open and a non-empty list it fills editStates from the
\* segments (crucial gives seg.crucial || '' per key) and resets status and
\* result; otherwise it does nothing
initEditStates(m, pendingSegments, crucial) ==
  IF m.isOpen /\ Len(pendingSegments) > 0
  THEN [ m EXCEPT
           !.editStates = [k \in editKeys(pendingSegments) |->
                             [crucial |-> crucial[k], isModified |-> FALSE]],
           !.status = "editing",
           !.result = "null" ]
  ELSE m

InitModal ==
  /\ EnginePinned
  /\ task = NoTask
  /\ picked = << >>
  /\ tasks \in ProgressTaskLists
  /\ selectedRecordIds \in SUBSET RecordIds
  /\ out = NoOut
  /\ page = initialPage
  /\ modal = closedModal

ModalFrame ==
  UNCHANGED << now, locks, round, storeVars, opening_image, replicaVars,
               nextArtifact, pc, req, before, wlog, flt, res, task, picked,
               selectedRecordIds, page >>

\* handleAdvanceNextStep: SET_SHOW_BATCH_EDIT_MODAL when pendingSegments is not
\* empty; the button is disabled while the page is operating. The two modals
\* are independent components: each is followed on a page where the other
\* has not been used
handleAdvanceNextStep ==
  /\ ~modal.isOpen
  /\ modal.single = closedModal.single
  /\ IF out.fn = "onConfirm" THEN out.at = "returned" /\ ~out.loading
                               ELSE out = NoOut
  /\ LET pendingSegments == calculatePendingSegments(tasks, selectedRecordIds)
     IN  /\ Len(pendingSegments) > 0
         /\ \E crucial \in [editKeys(pendingSegments) -> { "", "text" }] :
              modal' = initEditStates([modal EXCEPT !.isOpen = TRUE],
                                      pendingSegments, crucial)
  /\ out' = NoOut
  /\ UNCHANGED tasks
  /\ ModalFrame

\* handleFieldChange('crucial', value) on the segment shown
handleFieldChange ==
  /\ modal.isOpen
  /\ modal.status = "editing"
  /\ \E k \in DOMAIN modal.editStates, value \in CrucialTexts :
       /\ value # modal.editStates[k].crucial
       /\ modal' = [ modal EXCEPT
                       !.editStates[k] = [crucial |-> value, isModified |-> TRUE] ]
  /\ UNCHANGED << tasks, out >>
  /\ ModalFrame

\* the edits handleConfirm builds: one per pending segment, fields trimmed
editsOf(pendingSegments, editStates) ==
  [ i \in 1 .. Len(pendingSegments) |->
      [ taskId |-> pendingSegments[i].taskId,
        segmentIndex |-> pendingSegments[i].segmentIndex,
        crucial |-> trim(editStates[editKey(pendingSegments[i])].crucial),
        isModified |-> editStates[editKey(pendingSegments[i])].isModified ] ]

\* handleConfirm up to its await: setStatus('saving'), the edits,
\* setStatus('generating'), onConfirm(edits) is called
handleConfirm ==
  /\ modal.isOpen
  /\ modal.status = "editing"
  /\ IF out.fn = "onConfirm" THEN out.at = "returned" /\ ~out.loading
                               ELSE out = NoOut
  /\ modal' = [modal EXCEPT !.status = "generating"]
  /\ out' = [ fn |-> "onConfirm", at |-> "saving",
              edits |-> editsOf(calculatePendingSegments(tasks, selectedRecordIds),
                                modal.editStates),
              saveResults |-> << >>, sent |-> {}, loading |-> FALSE ]
  /\ UNCHANGED tasks
  /\ ModalFrame

\* the task ids of the modified edits
modifiedIds(edits) ==
  { edits[i].taskId : i \in { j \in 1 .. Len(edits) : edits[j].isModified } }

\* what handleConfirm does with the answer of onConfirm, or with its throw
confirmed(m, result) == [m EXCEPT !.result = result, !.status = "completed"]

\* step 1 of handleBatchEditConfirm: batchSavePrompts for the modified edits.
\* Nothing is modified: on to generation. The request throws: the outer catch
\* returns a failure. It answers: its per-record results are logged
SavePromptsAnswered ==
  /\ out.fn = "onConfirm"
  /\ out.at = "saving"
  /\ IF modifiedIds(out.edits) = {}
     THEN /\ out' = [out EXCEPT !.at = "generating"]
          /\ UNCHANGED modal
     ELSE \/ /\ out' = [out EXCEPT !.at = "returned"]
             /\ modal' = confirmed(modal, [ successCount |-> 0,
                                            failedCount |-> Len(out.edits) ])
          \/ /\ \E results \in [modifiedIds(out.edits) -> BOOLEAN] :
                  out' = [out EXCEPT !.at = "generating", !.saveResults = results]
             /\ UNCHANGED modal
  /\ UNCHANGED tasks
  /\ ModalFrame

\* the record ids that go into the generate requests when the records whose
\* save failed are left out
recordsSaved(edits, saveResults) ==
  { edits[i].taskId : i \in 1 .. Len(edits) } \
    { id \in DOMAIN saveResults : ~saveResults[id] }

\* step 2: segmentGroups is built from all edits, so every edit's record is in
\* the generate request of its segment index
recordsSent(edits) == { edits[i].taskId : i \in 1 .. Len(edits) }

\* the generate requests are answered or throw, loadTasks() is called and the
\* counts go back to the modal
GenerateSegmentsReturn ==
  /\ out.fn = "onConfirm"
  /\ out.at = "generating"
  /\ out' = [ out EXCEPT !.at = "returned", !.loading = TRUE,
                         !.sent = recordsSent(out.edits) ]
  /\ \E failedCount \in 0 .. Len(out.edits) :
       modal' = confirmed(modal, [ successCount |-> Len(out.edits) - failedCount,
                                   failedCount |-> failedCount ])
  /\ UNCHANGED tasks
  /\ ModalFrame

\* LOAD_TASKS_SUCCESS of that loadTasks(): a new task list, the pendingSegments
\* memo gives a new array and the init effect of the modal runs
TasksLoaded ==
  /\ out.fn = "onConfirm"
  /\ out.loading
  /\ out' = [out EXCEPT !.loading = FALSE]
  /\ tasks' \in ProgressTaskLists
  /\ LET pendingSegments == calculatePendingSegments(tasks', selectedRecordIds)
     IN  \E crucial \in [editKeys(pendingSegments) -> { "", "text" }] :
           modal' = initEditStates(modal, pendingSegments, crucial)
  /\ ModalFrame

\* onClose: cancel, run in background, close
onClose ==
  /\ modal.isOpen
  /\ modal' = [modal EXCEPT !.isOpen = FALSE]
  /\ UNCHANGED << tasks, out >>
  /\ ModalFrame

\* PromptEditModal is opened on a segment; its init effect takes the fields
openPromptEdit ==
  /\ ~modal.isOpen /\ modal.editStates = << >> /\ out = NoOut
  /\ ~modal.single.isOpen
  /\ \E crucial \in { "", "text" } :
       modal' = [ modal EXCEPT !.single = [ isOpen |-> TRUE, status |-> "editing",
                                            crucial |-> crucial, error |-> "null",
                                            submitted |-> @.submitted ] ]
  /\ UNCHANGED << tasks, out >>
  /\ ModalFrame

\* setCrucial
setCrucial ==
  /\ modal.single.isOpen
  /\ modal.single.status = "editing"
  /\ \E value \in CrucialTexts :
       /\ value # modal.single.crucial
       /\ modal' = [modal EXCEPT !.single.crucial = value]
  /\ UNCHANGED << tasks, out >>
  /\ ModalFrame

\* PromptEditModal.handleSubmit up to its await
submit(single) ==
  IF trim(single.crucial) = ""
  THEN [single EXCEPT !.error = "message"]
  ELSE [ single EXCEPT !.status = "generating", !.error = "null",
                       !.submitted = Append(@, trim(single.crucial)) ]

\* one submit is followed here; the modal can be reopened afterwards
handleSubmit ==
  /\ modal.single.isOpen
  /\ modal.single.status = "editing"
  /\ modal.single.submitted = << >>
  /\ modal' = [modal EXCEPT !.single = submit(@)]
  /\ UNCHANGED << tasks, out >>
  /\ ModalFrame

\* onSubmit is answered: success, or failed with an error; handleRetry is
\* left out
SubmitAnswered ==
  /\ modal.single.status = "generating"
  /\ \E st \in { "success", "failed" } :
       modal' = [ modal EXCEPT !.single.status = st,
                    !.single.error = IF st = "failed" THEN "message" ELSE "null" ]
  /\ UNCHANGED << tasks, out >>
  /\ ModalFrame

closePromptEdit ==
  /\ modal.single.isOpen
  /\ modal' = [modal EXCEPT !.single.isOpen = FALSE]
  /\ UNCHANGED << tasks, out >>
  /\ ModalFrame

NextModal ==
  \/ handleAdvanceNextStep \/ handleFieldChange \/ handleConfirm
  \/ SavePromptsAnswered \/ GenerateSegmentsReturn \/ TasksLoaded \/ onClose
  \/ openPromptEdit \/ setCrucial \/ handleSubmit \/ SubmitAnswered
  \/ closePromptEdit

SpecModal == InitModal /\ [][NextModal]_vars

(* ------------------ pageReducer under any action sequence ---------------- *)

ActionTypes ==
  DOMAIN StartStatus \cup SuccessTypes \cup FailureTypes
    \cup { "CONNECT_SUCCESS", "DISCONNECT", "CLEAR_ERROR" }

\* useReducer(pageReducer, ...) from INITIAL_STATE
InitReducer ==
  /\ EnginePinned
  /\ HelperIdle

ReducerFrame ==
  UNCHANGED << now, locks, round, storeVars, opening_image, replicaVars,
               nextArtifact, pc, req, before, wlog, flt, res, task, picked, modal >>

\* any action with no payload or a message payload; LOAD_TASKS_SUCCESS
\* carries the task list
DispatchAction ==
  /\ \E type \in ActionTypes :
       /\ page' = pageReducer(page, type)
       /\ out' = [fn |-> "dispatch", type |-> type]
       /\ IF type = "LOAD_TASKS_SUCCESS"
          THEN tasks' \in { << >>, LoadedTasks }
          ELSE UNCHANGED tasks
  /\ UNCHANGED selectedRecordIds
  /\ ReducerFrame

DispatchUpdateFeishuConfig ==
  /\ \E payload \in [appSecret : BOOLEAN] \cup [connected : BOOLEAN]
                       \cup [appSecret : BOOLEAN, connected : BOOLEAN] :
       page' = updateFeishuConfig(page, payload)
  /\ out' = [fn |-> "dispatch", type |-> "UPDATE_FEISHU_CONFIG"]
  /\ UNCHANGED << tasks, selectedRecordIds >>
  /\ ReducerFrame

\* case 'SET_SELECTED_RECORDS'
DispatchSetSelectedRecords ==
  /\ selectedRecordIds' \in SUBSET RecordIds
  /\ out' = [fn |-> "dispatch", type |-> "SET_SELECTED_RECORDS"]
  /\ UNCHANGED << tasks, page >>
  /\ ReducerFrame

NextReducer ==
  DispatchAction \/ DispatchUpdateFeishuConfig \/ DispatchSetSelectedRecords

SpecReducer == InitReducer /\ [][NextReducer]_vars

(* ---------------------- batch fan-out of a stage call -------------------- *)

\* the unit ids a batch stage call may name
FanoutIds == { "r1", "r2", "r3" }

\* the worker pool of a call; 0 is an operation outside the call
PoolHolder == 1

InitFanout ==
  /\ EnginePinned
  /\ task = NoTask
  /\ picked = << >>
  /\ tasks = << >>
  /\ selectedRecordIds \in (SUBSET FanoutIds) \ { {} }
  /\ out = NoOut
  /\ page = initialPage
  /\ modal = closedModal

FanoutFrame ==
  UNCHANGED << now, round, storeVars, opening_image, replicaVars, nextArtifact,
               pc, req, before, wlog, flt, res, task, picked, tasks,
               selectedRecordIds, page, modal >>

\* the operation outside the call finishes and releases its lock
OtherOperationReleases(id) ==
  /\ \E L \in LocksOf(id) : L.holder = 0
  /\ locks' = release_lock(id)
  /\ UNCHANGED out
  /\ FanoutFrame

\* POST /api/batch/generate-segments { record_ids, segment_index, concurrency }
BatchStageCall ==
  /\ out = NoOut
  /\ \E N \in 1 .. MaxConcurrency :
       out' = [ fn |-> "batch_stage", at |-> "running", N |-> N,
                record_ids |-> selectedRecordIds,
                waiting |-> selectedRecordIds,
                running |-> {},
                ran |-> {},
                taken |-> [id \in selectedRecordIds |-> 0],
                results |-> [id \in selectedRecordIds |-> "none"] ]
  /\ UNCHANGED locks
  /\ FanoutFrame

\* a pool that starts a unit whenever one is waiting
pool_unbounded(o) == TRUE

\* the bounded pool: a unit starts only while fewer than N are in progress
pool_has_room(o) == Cardinality(o.running) < o.N

\* a worker of the pool takes the next unit id: try_lock with timeout 0; a
\* locked unit gets its conflict result at once and leaves the queue
WorkerTakes(id) ==
  /\ out.fn = "batch_stage"
  /\ id \in out.waiting
  /\ pool_has_room(out)
  /\ LET op == [kind |-> "generate_segment", k |-> 0]
     IN  IF try_lock(id, op).ok
         THEN /\ locks' = lock_granted(id, op, PoolHolder)
              /\ out' = [ out EXCEPT !.waiting = @ \ { id },
                                      !.running = @ \cup { id },
                                      !.ran = @ \cup { id },
                                      !.taken[id] = @ + 1 ]
         ELSE /\ UNCHANGED locks
              /\ out' = [ out EXCEPT !.waiting = @ \ { id },
                                      !.taken[id] = @ + 1,
                                      !.results[id] = "ConflictError" ]
  /\ FanoutFrame

\* the stage of a unit ends with its outcome and the lock is released
WorkerFinishes(id) ==
  /\ out.fn = "batch_stage"
  /\ id \in out.running
  /\ \E outcome \in UnitOutcomes :
       out' = [ out EXCEPT !.running = @ \ { id }, !.results[id] = outcome ]
  /\ locks' = release_lock(id)
  /\ FanoutFrame

\* every unit has its result: the call answers with the per-unit results
BatchStageReturns ==
  /\ out.fn = "batch_stage"
  /\ out.at = "running"
  /\ out.waiting = {}
  /\ out.running = {}
  /\ out' = [ out EXCEPT !.at = "returned" ]
  /\ UNCHANGED locks
  /\ FanoutFrame

NextFanout ==
  \/ \E id \in FanoutIds : OtherOperationAcquires(id)
  \/ \E id \in FanoutIds : OtherOperationReleases(id)
  \/ BatchStageCall
  \/ \E id \in FanoutIds : WorkerTakes(id)
  \/ \E id \in FanoutIds : WorkerFinishes(id)
  \/ BatchStageReturns

SpecFanout == InitFanout /\ [][NextFanout]_vars

(* ============================== properties =============================== *)

\* the operations that are between a granted try_lock and their release
Running(u) == { o \in Ops : pc[o] \in InFlight /\ req[o].unit = u }
Crashed(u) == { o \in Ops : pc[o] = "dead" /\ req[o].unit = u }

\* status, error message, segment results and segment scripts of a snapshot
UnitState(s) ==
  [ status |-> s.status, error_message |-> s.error_message,
    segment_urls |-> s.segment_urls, storyboard_json |-> s.storyboard_json ]

\* C1: per unit, the try_lock calls answered while the lock is taken consist
\* of exactly one granted call, and every other call is a conflict that
\* carries the operation label of the holder; never do two live (non-expired)
\* locks exist for a unit, and never are two operations running on it.
C1_MutualExclusion ==
  \A u \in Units :
    /\ Cardinality(LiveLocks(u)) <= 1
    /\ Cardinality(Running(u)) <= 1
    /\ \A o \in Running(u) : \E L \in LiveLocks(u) : L.holder = o
    /\ round[u] # {} =>
         /\ Cardinality({ c \in round[u] : c.ok }) = 1
         /\ \A c \in round[u], g \in round[u] :
              (~c.ok /\ g.ok) => (c.holder = g.holder /\ c.op # g.op)

\* two workers called try_lock for the unit: one was granted, the other got
\* the conflict with the holder's label
C1_Witness ==
  \E u \in Units :
    /\ Cardinality(round[u]) >= 2
    /\ \E c \in round[u] : ~c.ok
    /\ Cardinality(LiveLocks(u)) = 1

\* C2: a segment request for index i > 0 that finds segment i-1 not completed
\* ends with ValidationError and has written nothing (status, error message,
\* segment results, scripts and archive are as at lock time, no write is
\* logged); whoever got past the validation with i > 0 had a completed
\* predecessor, and while its segment i is generating, segment i-1 is
\* completed.
C2_DependencyOrdering ==
  \A o \in Ops :
    (pc[o] \in InFlight /\ req[o].kind \in SegmentKinds /\ req[o].k > 0) =>
         LET u == req[o].unit
             predecessor == before[o].segment_urls[req[o].k - 1].status
         IN /\ (pc[o] # "validate" /\ predecessor # "completed") =>
                 /\ pc[o] = "release"
                 /\ res[o].code = "ValidationError"
                 /\ Snapshot(u) = before[o]
                 /\ wlog[o] = << >>
            /\ (pc[o] \notin {"validate", "release"}) => predecessor = "completed"
            /\ (pc[o] \in {"provider", "saveDb"}) =>
                 /\ segment_urls[u][req[o].k].status = "generating"
                 /\ segment_urls[u][req[o].k - 1].status = "completed"

\* a regenerate request for segment i > 0 whose predecessor is not completed
\* has been rejected
C2_Witness ==
  \E o \in Ops :
    /\ pc[o] = "release"
    /\ res[o].code = "ValidationError"
    /\ req[o].k > 0
    /\ segment_urls[req[o].unit][req[o].k - 1].status # "completed"

Archived(u, i, r) ==
  \E e \in segment_history[u] : e.segmentIndex = i /\ e.snapshot = r

\* C5: a cascade redo whose archive write failed ends with PersistenceError
\* and leaves status, error message, every segment result and every segment
\* script as they were at lock time; while the archive writes are under way
\* nothing is cleared; once a completed segment of the range is cleared, every
\* completed segment of the range has its snapshot in the archive.
C5_CascadeAtomicity ==
  \A o \in Ops :
    (pc[o] \in InFlight /\ req[o].kind = "cascade_redo") =>
      LET u == req[o].unit
          old == before[o].segment_urls
          range == { i \in Segs : i >= req[o].k /\ old[i].status = "completed" }
      IN /\ "archive" \in flt[o] =>
              (pc[o] = "release" /\ res[o].code = "PersistenceError")
         /\ ("archive" \in flt[o] \/ pc[o] \in {"backup", "clear"}) =>
              UnitState(Snapshot(u)) = UnitState(before[o])
         /\ (\E i \in range : segment_urls[u][i] # old[i]) =>
              \A i \in range : Archived(u, i, old[i])

\* the second archive write of a cascade failed after the first had succeeded
C5_Witness ==
  \E o \in Ops :
    /\ pc[o] = "release"
    /\ req[o].kind = "cascade_redo"
    /\ "archive" \in flt[o]
    /\ wlog[o] = << "archive" >>

\* C6: every step that replaces or clears a completed segment result finds a
\* snapshot of that result already in segment_history, and no step removes or
\* changes an entry of segment_history.
C6_ArchiveBeforeOverwrite ==
  [][ \A u \in Units :
        /\ segment_history[u] \subseteq segment_history'[u]
        /\ \A i \in Segs :
             (segment_urls[u][i].status = "completed"
                /\ segment_urls'[u][i] # segment_urls[u][i]) =>
               Archived(u, i, segment_urls[u][i]) ]_vars

\* a completed segment is being regenerated and its old result is archived
C6_Witness ==
  \E o \in Ops :
    /\ pc[o] = "provider"
    /\ before[o].segment_urls[req[o].k].status = "completed"
    /\ segment_urls[req[o].unit][req[o].k].status = "generating"
    /\ Archived(req[o].unit, req[o].k, before[o].segment_urls[req[o].k])

\* C7: a lock in the table belongs to an operation that has not returned yet
\* (or to a worker that died); once no operation runs on a unit, its lock is
\* free.
C7_LockReleased ==
  /\ \A L \in locks :
       /\ pc[L.holder] \in InFlight \cup {"dead"}
       /\ req[L.holder].unit = L.unitId
  /\ \A u \in Units :
       (Running(u) = {} /\ Crashed(u) = {}) => LocksOf(u) = {}

\* an operation that timed out has returned and left the lock free
C7_Witness ==
  \E u \in Units :
    /\ error_message[u] = "timeout"
    /\ \A o \in Ops : pc[o] = "idle"
    /\ LocksOf(u) = {}

rank(w) == IF w \in {"archive", "db"} THEN 0 ELSE IF w = "local" THEN 1 ELSE 2
written(o) == { wlog[o][i] : i \in DOMAIN wlog[o] }

C9_ReplicationIsolation ==
  \A o \in Ops :
    (pc[o] = "release" /\ flt[o] \cap {"local", "feishu"} # {}) =>
      LET u == req[o].unit
          k == req[o].k
      IN IF req[o].kind = "cascade_redo"
         THEN /\ res[o].code = "ok"
              /\ \A i \in Segs : i >= k => segment_urls[u][i] = PendingResult
              /\ \A i \in Segs : i < k => segment_urls[u][i] = before[o].segment_urls[i]
              /\ status[u] = "storyboard_ready"
         ELSE IF req[o].outcome = "success"
         THEN /\ res[o].code = "ok"
              /\ segment_urls[u][k] = [status |-> "completed",
                   video_url |-> req[o].art, last_frame |-> req[o].art]
              /\ status[u] = derive_status(segment_urls[u])
         ELSE /\ res[o].code = "UpstreamError"
              /\ segment_urls[u][k].status = "failed"
              /\ status[u] = "storyboard_ready"

\* both replica writes of a successful generation failed
C9_Witness ==
  \E o \in Ops :
    /\ pc[o] = "release"
    /\ flt[o] = {"local", "feishu"}
    /\ req[o].outcome = "success"
    /\ res[o].code = "ok"

\* the statuses getNextSegmentIndex has to go by: those of task.segments, or
\* of the storyboard's list when the task carries no segments; a missing
\* status counts as pending
C10_statuses(t) ==
  LET src == IF Len(t.segments) > 0 THEN t.segments
             ELSE IF t.storyboardJson.empty THEN << >>
             ELSE t.storyboardJson.storyboards
  IN [i \in 1 .. Len(src) |-> IF src[i].status = "" THEN "pending" ELSE src[i].status]

C10_excluded(t) ==
  \/ t.status \in { GeneratingNames[i] : i \in 1 .. Len(GeneratingNames) }
  \/ t.status \in { "merging", "storyboard_generating", "completed" }

\* C10: for a task that has a storyboard and is in none of the excluded
\* statuses, getNextSegmentIndex returns the smallest index whose segment is
\* not completed if that index's prerequisite holds (index 0: opening image
\* present; index i > 0: segment i-1 completed); it returns null when all
\* segments are completed, when the prerequisite fails, when the status is
\* excluded or the storyboard is missing; a returned index i > 0 always has a
\* completed predecessor.
C10_AutoSelection ==
  picked # << >> =>
    LET v == picked[1]
        st == C10_statuses(task)
        open == { i \in 0 .. (Len(st) - 1) : st[i + 1] # "completed" }
        eligible == ~task.storyboardJson.empty /\ ~C10_excluded(task)
        first == CHOOSE i \in open : \A j \in open : i <= j
        ready(i) == IF i = 0 THEN task.openingImageUrl ELSE st[i] = "completed"
    IN  /\ (eligible /\ open # {} /\ ready(first)) => v = first
        /\ (~eligible \/ open = {} \/ ~ready(first)) => v = NULL
        /\ (v # NULL /\ v > 0) => st[v] = "completed"

\* a task with a failed segment in the middle: the failed one is picked
C10_Witness ==
  /\ picked # << >>
  /\ picked[1] = 1
  /\ Len(task.segments) = 3
  /\ task.segments[2].status = "failed"
  /\ task.segments[3].status = "pending"

\* the task an entry of a pending list was built from
TaskOf(e) == tasksToProcess(tasks, selectedRecordIds)[e.taskIndex + 1]

\* lastFrameUrl of segment j of a task: the merged segment's, else the
\* storyboard's under either spelling
lastFrameUrlOf(t, j) ==
  LET sb == parseStoryboardSegments(t.storyboardJson)
      fromTask == IF j < Len(t.segments) THEN t.segments[j + 1].lastFrameUrl ELSE ""
      fromSb == IF j >= Len(sb) THEN ""
                ELSE IF sb[j + 1].lastFrameUrl # "" THEN sb[j + 1].lastFrameUrl
                ELSE sb[j + 1].last_frame_url
  IN  IF fromTask # "" THEN fromTask ELSE fromSb

\* every completed segment of the task has its last frame set, in the merged
\* list and in the storyboard
CompletedHaveLastFrame(t) ==
  LET sb == parseStoryboardSegments(t.storyboardJson)
  IN  /\ \A j \in 1 .. Len(t.segments) :
            t.segments[j].status = "completed" => t.segments[j].lastFrameUrl # ""
      /\ \A j \in 1 .. Len(sb) :
            sb[j].status = "completed" =>
              (sb[j].lastFrameUrl # "" \/ sb[j].last_frame_url # "")

Occurrences(ids, id) == Cardinality({ i \in 1 .. Len(ids) : ids[i] = id })

\* every id is in at most one group of a grouping, and there at most once
OneGroupPerTask(groups) ==
  \A id \in RecordIds :
    /\ \A k \in DOMAIN groups : Occurrences(groups[k], id) <= 1
    /\ \A k1, k2 \in DOMAIN groups :
         (Occurrences(groups[k1], id) > 0 /\ Occurrences(groups[k2], id) > 0)
           => k1 = k2

\* the generations a batch call started for a record: the per-record results
\* other than a conflict
StartedFor(id) ==
  { << c, i >> \in (1 .. Len(out.calls)) \X (1 .. MaxBatchSegs):
      /\ i <= Len(out.calls[c].results)
      /\ out.calls[c].recordIds[i] = id
      /\ out.calls[c].results[i] # "ConflictError" }

\* C12: a pending list names each task once, a grouping holds each task id in
\* at most one segment group, a batch call starts at most one generation per
\* record, and a record whose lock is held by another operation gets a
\* conflict instead of a generation.
C12_SequentialPerUnit ==
  /\ out.fn = "calculatePendingSegments" =>
       \A id \in RecordIds : Occurrences(idsOf(out.value), id) <= 1
  /\ out.fn = "groupTasksBySegmentIndex" => OneGroupPerTask(out.value)
  /\ out.fn = "handleBatchEditConfirm" =>
       /\ OneGroupPerTask(out.segmentGroups)
       /\ \A id \in RecordIds :
            /\ Cardinality(StartedFor(id)) <= 1
            /\ LiveLocks(id) # {} => StartedFor(id) = {}

\* two tasks in different groups of one batch, one of them locked elsewhere
\* and answered with a conflict while the other was generated
C12_Witness ==
  /\ out.fn = "handleBatchEditConfirm"
  /\ out.at = "returned"
  /\ Cardinality(DOMAIN out.segmentGroups) = 2
  /\ LiveLocks("r1") # {}
  /\ StartedFor("r2") # {}
  /\ \E c \in 1 .. Len(out.calls) :
       out.calls[c].results = << "ConflictError" >>

\* C13: a batch call that got past saving the prompts sends one generate
\* request per segment group whatever the earlier requests returned or threw,
\* every record of an answered request has its own result whatever its
\* siblings got, and the returned successCount and failedCount add up to the
\* number of units submitted.
C13_BatchIsolation ==
  out.fn = "handleBatchEditConfirm" =>
    /\ \A c \in 1 .. Len(out.calls) :
         ~out.calls[c].thrown =>
           Len(out.calls[c].results) = Len(out.calls[c].recordIds)
    /\ out.at = "returned" =>
         /\ out.result.successCount + out.result.failedCount = Len(out.edits)
         /\ out.result.success <=> (out.result.failedCount = 0)
         /\ out.saved =>
              /\ { out.calls[c].segmentIndex : c \in 1 .. Len(out.calls) }
                   = DOMAIN out.segmentGroups
              /\ Len(out.calls) = Cardinality(DOMAIN out.segmentGroups)

\* the request for the first group threw, the second group was still sent
\* and succeeded, and the call returned one success and one failure
C13_Witness ==
  /\ out.fn = "handleBatchEditConfirm"
  /\ out.at = "returned"
  /\ Len(out.calls) = 2
  /\ out.calls[1].thrown
  /\ out.calls[2].results = << "ok" >>
  /\ out.result.successCount = 1
  /\ out.result.failedCount = 1

\* a cascade redo that has written all three stores and is about to return
CascadeDone(o) ==
  /\ pc[o] = "release"
  /\ req[o].kind = "cascade_redo"
  /\ res[o].code = "ok"

\* the archive entries written since the operation took the lock
NewEntries(o) == segment_history[req[o].unit] \ before[o].segment_history

\* the segments from k on that were completed when the operation took the lock
CompletedRange(o) ==
  { i \in Segs : i >= req[o].k /\ before[o].segment_urls[i].status = "completed" }

\* the operation made one archive write per segment of the completed range:
\* each of them has an entry holding its old result, and no entry was added
\* for any other segment
ArchivedExactly(o) ==
  /\ \A i \in CompletedRange(o) :
       Archived(req[o].unit, i, before[o].segment_urls[i])
  /\ \A e \in NewEntries(o) :
       /\ e.segmentIndex \in CompletedRange(o)
       /\ e.snapshot = before[o].segment_urls[e.segmentIndex]
  /\ Cardinality({ j \in 1 .. Len(wlog[o]) : wlog[o][j] = "archive" })
       = Cardinality(CompletedRange(o))

\* C14 as stated: a successful cascade redo from k archives exactly the
\* completed segments from k on, resets exactly those segment results to
\* pending and leaves every other segment result as it was, and leaves the
\* status at storyboard_ready.
C14_ResetsExactlyCompleted ==
  \A o \in Ops :
    CascadeDone(o) =>
      LET u == req[o].unit
          old == before[o].segment_urls
      IN  /\ ArchivedExactly(o)
          /\ \A i \in CompletedRange(o) : segment_urls[u][i] = PendingResult
          /\ \A i \in Segs \ CompletedRange(o) : segment_urls[u][i] = old[i]
          /\ status[u] = "storyboard_ready"

\* C14: a successful cascade redo from k archives exactly the completed
\* segments from k on, one entry each, resets every segment result from k on
\* to pending with its references removed, whether it was completed or not,
\* leaves every segment result below k as it was, and leaves the status at
\* storyboard_ready.
C14_CascadeFootprint ==
  \A o \in Ops :
    CascadeDone(o) =>
      LET u == req[o].unit
          old == before[o].segment_urls
      IN  /\ ArchivedExactly(o)
          /\ \A i \in Segs : i >= req[o].k => segment_urls[u][i] = PendingResult
          /\ \A i \in Segs : i < req[o].k => segment_urls[u][i] = old[i]
          /\ status[u] = "storyboard_ready"

\* a cascade redo from a completed segment 1 that kept segment 0 and also
\* reset a later segment that had failed
C14_Witness ==
  \E o \in Ops :
    /\ CascadeDone(o)
    /\ req[o].k = 1
    /\ CompletedRange(o) = {1}
    /\ before[o].segment_urls[2].status = "failed"
    /\ segment_urls[req[o].unit][2] = PendingResult
    /\ segment_urls[req[o].unit][0].status = "completed"

\* C15: an operation that asks for the lock of a unit while another operation
\* holds it is answered with a conflict in that same step: it is over at once,
\* is not queued or tried again, and the step writes no archive entry and
\* changes no segment result, no status, no error message, no replica and no
\* lock.
C15_ConflictFailsFast ==
  [][ \A o \in Ops :
        ( /\ pc[o] = "requested"
          /\ LiveLocks(req[o].unit) # {}
          /\ pc'[o] # "requested" ) =>
          /\ pc'[o] = "idle"
          /\ req'[o] = NoReq
          /\ \E c \in round'[req[o].unit] : c.op = o /\ ~c.ok
          /\ UNCHANGED << storeVars, replicaVars, locks >> ]_vars

\* a cascade redo runs on a unit and a second request on the same unit has
\* been turned away with the running operation's label
C15_Witness ==
  \E o \in Ops, u \in Units :
    /\ pc[o] \in {"backup", "clear"}
    /\ req[o].unit = u
    /\ \E c \in round[u] :
         /\ ~c.ok
         /\ c.op # o
         /\ pc[c.op] = "idle"
         /\ c.holder = operation(req[o])

\* the tasks of the page with a given id
TasksWithId(id) == { tasks[i] : i \in { j \in 1 .. Len(tasks) : tasks[j].id = id } }

\* C16: every record id the merge handler sends to the merge endpoint is the
\* id of a task of the page whose status is all_segments_ready (and of a
\* selected task when there is a selection); when no such task is in scope
\* nothing is sent.
C16_AssemblyPrecondition ==
  out.fn = "handleMergeVideos" =>
    /\ out.sent =>
         /\ out.recordIds # << >>
         /\ \A i \in 1 .. Len(out.recordIds) :
              /\ TasksWithId(out.recordIds[i]) # {}
              /\ \A t \in TasksWithId(out.recordIds[i]) :
                   t.status = "all_segments_ready"
              /\ selectedRecordIds # {} => out.recordIds[i] \in selectedRecordIds
    /\ ~out.sent =>
         \A i \in 1 .. Len(tasks) :
           (selectedRecordIds = {} \/ tasks[i].id \in selectedRecordIds)
             => tasks[i].status # "all_segments_ready"

\* of two tasks with every segment completed only the one whose status is
\* all_segments_ready was sent
C16_Witness ==
  /\ out.fn = "handleMergeVideos"
  /\ out.sent
  /\ Len(tasks) = 2
  /\ selectedRecordIds = {}
  /\ out.recordIds = << "r2" >>
  /\ tasks[1].status = "storyboard_ready"
  /\ Len(tasks[1].segments) > 0
  /\ \A i \in 1 .. Len(tasks[1].segments) : tasks[1].segments[i].status = "completed"

C18_TTLReclamation ==
  [][ \A o \in Ops :
        ( /\ pc[o] = "requested"
          /\ LocksOf(req[o].unit) # {}
          /\ LiveLocks(req[o].unit) = {}
          /\ pc'[o] # "requested" ) =>
          /\ pc'[o] \in {"validate", "backup"}
          /\ { L \in locks' : L.unitId = req[o].unit } =
               { [ unitId |-> req[o].unit, operation |-> operation(req[o]),
                   holder |-> o, acquiredAt |-> now,
                   expiresAt |-> now + LockTTL ] } ]_vars

\* a worker died holding the lock of a unit, the TTL ran out, and another
\* worker now holds the lock of that unit
C18_Witness ==
  \E d \in Ops, o \in Ops :
    /\ pc[d] = "dead"
    /\ pc[o] \in InFlight
    /\ req[o].unit = req[d].unit
    /\ \E L \in LiveLocks(req[o].unit) : L.holder = o /\ L.acquiredAt >= LockTTL

\* C19: an operation that ends in failure on a unit that carried an error
\* message leaves the unit with an error message, and an operation that ends
\* in success leaves the unit without one.
C19_ErrorMessageLifecycle ==
  \A o \in Ops :
    pc[o] = "release" =>
      /\ (res[o].code # "ok" /\ before[o].error_message # "none") =>
           error_message[req[o].unit] # "none"
      /\ res[o].code = "ok" => error_message[req[o].unit] = "none"

\* C20: at most one request of the page is pending at any time, and while one
\* is pending the page status is neither idle nor error.
C20_PageStatusExclusive ==
  /\ InFlightCount(page) <= 1
  /\ InFlightCount(page) > 0 => isOperating(page)

\* C21: once no task-list request is pending and the request issued last was
\* answered with a list, the task list and the last-seen status map hold that
\* request's response: an earlier request's response never replaces it.
C21_NoStaleTaskList ==
  (/\ page.pending["loadTasks"] = 0
   /\ page.pending["syncTasks"] = 0
   /\ page.latest = "ok")
    => page.shown = "latest" /\ page.lastSeen = "latest"

\* C22: during a batch stage call with concurrency bound N at most N units are
\* in progress; every requested unit id is taken at most once while the call
\* runs and exactly once when it has returned; a unit found locked has the
\* conflict as its result, was never processed and is not taken again.
C22_BoundedFanout ==
  out.fn = "batch_stage" =>
    /\ Cardinality(out.running) <= out.N
    /\ \A id \in out.record_ids :
         /\ out.taken[id] <= 1
         /\ out.taken[id] = 0 <=> id \in out.waiting
         /\ out.results[id] = "ConflictError" =>
              id \notin out.ran /\ id \notin out.waiting /\ out.taken[id] = 1
         /\ (id \notin out.ran /\ out.taken[id] = 1) =>
              out.results[id] = "ConflictError"
    /\ out.at = "returned" =>
         \A id \in out.record_ids : out.taken[id] = 1 /\ out.results[id] # "none"

\* a call over three units with bound 2 has returned: one unit was found
\* locked, is free again and was not retried, the other two were processed
C22_Witness ==
  /\ out.fn = "batch_stage"
  /\ out.at = "returned"
  /\ out.N = 2
  /\ out.record_ids = FanoutIds
  /\ Cardinality(out.ran) = 2
  /\ \E id \in FanoutIds : out.results[id] = "ConflictError" /\ LocksOf(id) = {}

\* C23: the feishu_config entry of localStorage never contains the app
\* secret.
C23_SecretNotPersisted == ~page.feishu_config.appSecret

\* what each action of an async operation leaves behind
ReducerSteps ==
  out.fn = "dispatch" =>
    /\ out.type \in DOMAIN StartStatus =>
         page.status = StartStatus[out.type] /\ page.errorMessage = "null"
    /\ out.type \in SuccessTypes \cup { "CONNECT_SUCCESS" } => page.status = "idle"
    /\ out.type \in FailureTypes =>
         page.status = "error" /\ page.errorMessage = "message"

\* C24 as stated: START sets the in-flight status and clears errorMessage,
\* SUCCESS sets idle, FAILURE sets error and the message; status = error
\* implies a message and status = idle implies none.
C24_ReducerProtocolIdleClean ==
  /\ ReducerSteps
  /\ page.status = "error" => page.errorMessage # "null"
  /\ page.status = "idle" => page.errorMessage = "null"

\* C24 amended: the same steps; status = error implies a message and an
\* in-flight status implies none, while idle may keep an earlier message.
C24_ReducerProtocol ==
  /\ ReducerSteps
  /\ page.status = "error" => page.errorMessage # "null"
  /\ isOperating(page) => page.errorMessage = "null"

\* a SUCCESS action arrived after a FAILURE: idle with the old message
C24_Witness ==
  /\ out.fn = "dispatch"
  /\ out.type \in SuccessTypes
  /\ page.status = "idle"
  /\ page.errorMessage = "message"

\* C25: once every request of the page has settled the status is idle or
\* error: each operation that dispatched its START action has dispatched a
\* SUCCESS or FAILURE action, whatever the outcome of its request.
C25_NoStuckInFlightStatus == InFlightCount(page) = 0 => ~isOperating(page)

\* C26: unless the user keeps acting for ever, the automatic full sync is
\* issued only finitely many times, whatever the table holds and however the
\* requests end.
C26_AutoSyncTerminates ==
  \/ []<><<UserAction>>_vars
  \/ <>[][~syncTasksFromFeishu]_vars

\* the (task id, segment index) pairs of a grouping and of a pending list
GroupPairs(groups) ==
  UNION { { << groups[k][i], k >> : i \in 1 .. Len(groups[k]) } : k \in DOMAIN groups }
PendingPairs(pending) ==
  { << pending[i].taskId, pending[i].segmentIndex >> : i \in 1 .. Len(pending) }

\* Object.values(segmentGroups).reduce((sum, ids) => sum + ids.length, 0)
readyCount(groups) ==
  Cardinality(UNION { { << k, i >> : i \in 1 .. Len(groups[k]) } : k \in DOMAIN groups })

\* C27: for every task list and selection the pairs of groupTasksBySegmentIndex
\* are the pairs of calculatePendingSegments, and readyCount is the number of
\* segments the batch edit modal is given.
C27_ReadyCountMatchesPending ==
  out.fn = "groupTasksBySegmentIndex" =>
    LET pending == calculatePendingSegments(tasks, selectedRecordIds)
    IN  /\ GroupPairs(out.value) = PendingPairs(pending)
        /\ readyCount(out.value) = Len(pending)

\* C28: once confirmed, the batch edit modal stays past editing: while it is
\* open in saving, generating or completed, no step (a task-list refresh, a
\* recomputation of pendingSegments) returns it to editing, discards its edit
\* states, or discards the result counts it shows when completed; and when
\* the confirm has returned and the modal is still open it shows completed.
PastEditing == { "saving", "generating", "completed" }

C28_StaysOpenStep ==
  (modal.isOpen /\ modal'.isOpen /\ modal.status \in PastEditing)
    => /\ modal'.status \in PastEditing
       /\ modal'.editStates = modal.editStates
       /\ modal.status = "completed" => modal'.result = modal.result

C28_ModalStaysCompleted == [][C28_StaysOpenStep]_vars

\* C29: generation follows a successful save: within one confirm, no
\* generate-segments request contains a record for which batchSavePrompts
\* reported a failure.
C29_GenerationFollowsSave ==
  out.fn = "onConfirm" => out.sent \subseteq recordsSaved(out.edits, out.saveResults)

\* C30: the required crucial field is enforced on every submit path: the
\* single-segment modal never calls onSubmit with a crucial text that is empty
\* after trimming, and the batch modal never calls onConfirm with an edit
\* whose crucial text is empty after trimming.
SingleCrucialEnforced ==
  \A i \in 1 .. Len(modal.single.submitted) : modal.single.submitted[i] # ""

BatchCrucialEnforced ==
  out.fn = "onConfirm" => \A i \in 1 .. Len(out.edits) : out.edits[i].crucial # ""

C30_CrucialRequired == SingleCrucialEnforced /\ BatchCrucialEnforced

====
